---------------------------- MODULE Spec2Model ----------------------------
(***************************************************************************)
(* Model of the deterministic analytic core of the smart-energy agent:     *)
(* the four function tools of tools/adk_custom_tools.py and the            *)
(* construction of the orchestrator of orchestrator/adk_orchestrator.py.   *)
(*                                                                         *)
(* Numbers.  Python floats are modelled by exact fixed-point integers:     *)
(*   - a meter reading's consumption_kwh is in hundredths of a kWh,        *)
(*   - a bill's consumption and a tier's threshold are in whole kWh,       *)
(*   - a rate is in mills (thousandths of a dollar) per kWh,               *)
(*   - round(x, 2) / round(x, 3) is round-half-to-even on the exact value. *)
(* Python values of different types are tagged records; a dict is a        *)
(* function whose DOMAIN is its key set, so d.get(k, default) and "k in d" *)
(* are decided by DOMAIN.                                                  *)
(***************************************************************************)
EXTENDS Integers, Sequences, FiniteSets, TLC

VARIABLES fn,        \* the tool being called: "stats", "peak", "cost", "savings"
          args,      \* the call's arguments (a record, one field per parameter)
          result,    \* the returned dictionary; [status |-> "pending"] before the call
          orch,      \* the orchestrator object's attributes (a dict: name -> value)
          opc,       \* position of the orchestrator's constructor: method and statement
          failAt,    \* which ADK constructor call of the full setup raises (0: none)
          locals,    \* the local variables of the method being run (per thread,
                     \* when several threads call the orchestrator)
          calls      \* how many analyze_bill / analyze_meter_data calls were started
                     \* on the orchestrator

toolVars == <<fn, args, result>>
orchVars == <<orch, opc, failAt, locals, calls>>
vars == <<fn, args, result, orch, opc, failAt, locals, calls>>

-----------------------------------------------------------------------------
(* Bounds of the model *)

MaxReadings == 3
MaxTiers == 3
MaxText == 3        \* tokens in an agent's response text
MaxEvents == 2      \* events in the list an agent run returns

-----------------------------------------------------------------------------
(* Python helpers *)

\* d.get(k, default)
Get(d, k, default) == IF k \in DOMAIN d THEN d[k] ELSE default

\* round(num/den, n) on exact values: nearest, ties to even (den > 0)
RoundHalfEven(num, den) ==
    LET q == num \div den
        r == num % den
    IN  IF 2 * r < den THEN q
        ELSE IF 2 * r > den THEN q + 1
        ELSE IF q % 2 = 0 THEN q ELSE q + 1

\* isinstance(x, dict): every non-dict value carries its Python type
IsDict(x) == "pytype" \notin DOMAIN x

\* isinstance(x, list)
IsList(x) == x.pytype = "list"

\* bool(x) of a container or None
Truthy(x) == x.pytype # "NoneType" /\ Len(x.items) > 0

\* float(x): the value, or the exception float() raises
Float(x) ==
    CASE x.t = "float"  -> [exc |-> "none", v |-> x.v]
      [] x.t = "str"    -> [exc |-> "ValueError", v |-> 0]
      [] x.t = "list"   -> [exc |-> "TypeError", v |-> 0]
      [] x.t = "bigint" -> [exc |-> "OverflowError", v |-> 0]

RECURSIVE SumSeq(_)
SumSeq(s) == IF s = <<>> THEN 0 ELSE Head(s) + SumSeq(Tail(s))

RECURSIVE MinSeq(_)
MinSeq(s) == IF Len(s) = 1 THEN s[1]
             ELSE LET m == MinSeq(Tail(s)) IN IF s[1] <= m THEN s[1] ELSE m

RECURSIVE MaxSeq(_)
MaxSeq(s) == IF Len(s) = 1 THEN s[1]
             ELSE LET m == MaxSeq(Tail(s)) IN IF s[1] >= m THEN s[1] ELSE m

\* insert x into the ascending sequence s
RECURSIVE InsertAsc(_, _)
InsertAsc(x, s) == IF s = <<>> THEN <<x>>
                   ELSE IF x < Head(s) THEN <<x>> \o s
                   ELSE <<Head(s)>> \o InsertAsc(x, Tail(s))

\* sorted(s) of numbers
RECURSIVE SortAsc(_)
SortAsc(s) == IF s = <<>> THEN <<>> ELSE InsertAsc(Head(s), SortAsc(Tail(s)))

-----------------------------------------------------------------------------
(* Values a reading's fields take *)

Num(v) == [t |-> "float", v |-> v]
NonNumericText == [t |-> "str", text |-> "abc"]
AList == [t |-> "list"]
HugeInt == [t |-> "bigint"]          \* an int too large for float()
IsoTimestamp(d, h) == [t |-> "str", iso |-> [day |-> d, hour |-> h]]
MalformedTimestamp == [t |-> "str", text |-> "not-a-date"]
NumberTimestamp == Num(12345)        \* neither a string nor a datetime
NotADict == [pytype |-> "str"]

Hours == {3, 7, 18}
Kwh == {100, 300}

ValidReadings ==
    {[timestamp |-> IsoTimestamp(1, h), consumption_kwh |-> Num(v)] : h \in Hours, v \in Kwh}
    \cup {[timestamp |-> IsoTimestamp(2, 7), consumption_kwh |-> Num(200)]}

BadTimestampReadings ==
    {[consumption_kwh |-> Num(100)]}
    \cup {[timestamp |-> ts, consumption_kwh |-> Num(100)] :
             ts \in {MalformedTimestamp, NumberTimestamp}}

BadConsumptionReadings ==
    {[timestamp |-> IsoTimestamp(1, 3)]}
    \cup {[timestamp |-> IsoTimestamp(1, 3), consumption_kwh |-> c] :
             c \in {NonNumericText, AList, HugeInt}}

Readings == ValidReadings \cup BadTimestampReadings \cup BadConsumptionReadings
            \cup {NotADict}

SeqsUpTo(S, n) == UNION {[1..k -> S] : k \in 0..n}

PyList(s) == [pytype |-> "list", items |-> s]
PyTuple(s) == [pytype |-> "tuple", items |-> s]
PyNone == [pytype |-> "NoneType", items |-> <<>>]

ReadingLists == {PyList(s) : s \in SeqsUpTo(Readings, MaxReadings)}

NonLists == {PyNone, PyTuple(<<>>),
             PyTuple(<<[timestamp |-> IsoTimestamp(1, 3), consumption_kwh |-> Num(100)]>>)}

ConsumptionData == ReadingLists \cup NonLists

-----------------------------------------------------------------------------
(* calculate_consumption_statistics *)

ErrorResult(msg) == [status |-> "error", error_message |-> msg]

\* ExtractConsumptions with the timestamp required too: a record whose
\* timestamp does not parse is passed over
RECURSIVE ExtractConsumptionsTimestamped(_, _, _)
ExtractConsumptionsTimestamped(items, i, consumptions) ==
    IF i > Len(items) THEN [exc |-> "none", consumptions |-> consumptions]
    ELSE LET item == items[i] IN
         IF /\ IsDict(item) /\ "consumption_kwh" \in DOMAIN item
            /\ "timestamp" \in DOMAIN item /\ item.timestamp.t = "str"
            /\ "iso" \in DOMAIN item.timestamp
         THEN LET f == Float(item.consumption_kwh) IN
              IF f.exc = "none"
              THEN ExtractConsumptionsTimestamped(items, i + 1, Append(consumptions, f.v))
              ELSE IF f.exc \in {"ValueError", "TypeError"}
              THEN ExtractConsumptionsTimestamped(items, i + 1, consumptions)
              ELSE [exc |-> f.exc, consumptions |-> consumptions]
         ELSE ExtractConsumptionsTimestamped(items, i + 1, consumptions)

\* the loop over consumption_data: the floats collected, or the exception
\* that leaves the loop
RECURSIVE ExtractConsumptions(_, _, _)
ExtractConsumptions(items, i, consumptions) ==
    IF i > Len(items) THEN [exc |-> "none", consumptions |-> consumptions]
    ELSE LET item == items[i] IN
         IF IsDict(item) /\ "consumption_kwh" \in DOMAIN item
         THEN LET f == Float(item.consumption_kwh) IN
              IF f.exc = "none"
              THEN ExtractConsumptions(items, i + 1, Append(consumptions, f.v))
              ELSE IF f.exc \in {"ValueError", "TypeError"}
              THEN ExtractConsumptions(items, i + 1, consumptions)
              ELSE [exc |-> f.exc, consumptions |-> consumptions]
         ELSE ExtractConsumptions(items, i + 1, consumptions)

\* Median with the two middle values of an even count added but not halved
MedianUnhalved(xs) ==
    LET s == SortAsc(xs)
        n == Len(s)
    IN  IF n % 2 = 1 THEN s[(n + 1) \div 2]
        ELSE s[n \div 2] + s[n \div 2 + 1]

\* round(statistics.median(xs), 2)
Median(xs) ==
    LET s == SortAsc(xs)
        n == Len(s)
    IN  IF n % 2 = 1 THEN s[(n + 1) \div 2]
        ELSE RoundHalfEven(s[n \div 2] + s[n \div 2 + 1], 2)

\* round(statistics.stdev(xs), 2) for len(xs) > 1: the sample standard
\* deviation sqrt(N / D), N = n*sum(x^2) - sum(x)^2, D = n*(n-1), to the nearest unit
Stdev(xs) ==
    LET n == Len(xs)
        sq == [i \in 1..n |-> xs[i] * xs[i]]
        N == n * SumSeq(sq) - SumSeq(xs) * SumSeq(xs)
        D == n * (n - 1)
    IN  CHOOSE r \in 0..(MaxSeq(xs) - MinSeq(xs) + 1) :
            /\ (r = 0 \/ (2 * r - 1) * (2 * r - 1) * D <= 4 * N)
            /\ 4 * N < (2 * r + 1) * (2 * r + 1) * D

calculate_consumption_statistics(consumption_data) ==
    IF ~Truthy(consumption_data) \/ ~IsList(consumption_data)
    THEN ErrorResult("consumption_data must be a non-empty list")
    ELSE LET ex == ExtractConsumptions(consumption_data.items, 1, <<>>)
             consumptions == ex.consumptions
         IN  IF ex.exc # "none"
             THEN ErrorResult("Failed to calculate statistics: " \o ex.exc)
             ELSE IF consumptions = <<>>
             THEN ErrorResult("No valid consumption_kwh values found in data")
             ELSE [status  |-> "success",
                   mean    |-> RoundHalfEven(SumSeq(consumptions), Len(consumptions)),
                   median  |-> Median(consumptions),
                   std_dev |-> IF Len(consumptions) > 1 THEN Stdev(consumptions) ELSE 0,
                   min     |-> MinSeq(consumptions),
                   max     |-> MaxSeq(consumptions),
                   total   |-> SumSeq(consumptions),
                   count   |-> Len(consumptions)]

-----------------------------------------------------------------------------
(* detect_peak_hours *)

PyNoneValue == [t |-> "NoneType"]

\* "not v" for a field value
Falsy(v) == v.t = "NoneType" \/ (v.t = "float" /\ v.v = 0)

\* HourOf with a string that does not parse read as midnight instead of
\* raising
HourOfLenient(timestamp) ==
    IF timestamp.t = "str"
    THEN IF "iso" \in DOMAIN timestamp
         THEN [exc |-> "none", hour |-> timestamp.iso.hour]
         ELSE [exc |-> "none", hour |-> 0]
    ELSE IF timestamp.t = "datetime"
         THEN [exc |-> "none", hour |-> timestamp.hour]
         ELSE [exc |-> "AttributeError", hour |-> 0]

\* the hour of a timestamp: datetime.fromisoformat(...) for a string, the
\* value itself otherwise, then .hour; or the exception raised on the way
HourOf(timestamp) ==
    IF timestamp.t = "str"
    THEN IF "iso" \in DOMAIN timestamp
         THEN [exc |-> "none", hour |-> timestamp.iso.hour]
         ELSE [exc |-> "ValueError", hour |-> 0]
    ELSE IF timestamp.t = "datetime"
         THEN [exc |-> "none", hour |-> timestamp.hour]
         ELSE [exc |-> "AttributeError", hour |-> 0]

\* hourly_consumption is a dict in insertion order: a sequence of
\* [hour, consumptions] entries with distinct hours
HasHour(hourly_consumption, hour) ==
    \E k \in 1..Len(hourly_consumption) : hourly_consumption[k].hour = hour

\* if hour not in hourly_consumption: hourly_consumption[hour] = []
EnsureHour(hourly_consumption, hour) ==
    IF HasHour(hourly_consumption, hour) THEN hourly_consumption
    ELSE Append(hourly_consumption, [hour |-> hour, consumptions |-> <<>>])

\* AppendToHour with the bucket replaced instead of extended: only the last
\* value of an hour is kept
AppendToHourOverwrite(hourly_consumption, hour, v) ==
    [k \in 1..Len(hourly_consumption) |->
        IF hourly_consumption[k].hour = hour
        THEN [hourly_consumption[k] EXCEPT !.consumptions = <<v>>]
        ELSE hourly_consumption[k]]

\* hourly_consumption[hour].append(v)
AppendToHour(hourly_consumption, hour, v) ==
    [k \in 1..Len(hourly_consumption) |->
        IF hourly_consumption[k].hour = hour
        THEN [hourly_consumption[k] EXCEPT !.consumptions = Append(@, v)]
        ELSE hourly_consumption[k]]

\* the grouping loop: the dict built, or the exception that leaves the loop
RECURSIVE GroupByHour(_, _, _)
GroupByHour(items, i, hourly_consumption) ==
    IF i > Len(items) THEN [exc |-> "none", hourly_consumption |-> hourly_consumption]
    ELSE LET item == items[i] IN
         IF ~IsDict(item) THEN GroupByHour(items, i + 1, hourly_consumption)
         ELSE LET timestamp == Get(item, "timestamp", PyNoneValue)
                  consumption == Get(item, "consumption_kwh", PyNoneValue)
              IN  IF Falsy(timestamp) \/ consumption.t = "NoneType"
                  THEN GroupByHour(items, i + 1, hourly_consumption)
                  ELSE LET dt == HourOf(timestamp) IN
                       IF dt.exc \in {"ValueError", "AttributeError"}
                       THEN GroupByHour(items, i + 1, hourly_consumption)
                       ELSE LET withHour == EnsureHour(hourly_consumption, dt.hour)
                                f == Float(consumption)
                            IN  IF f.exc = "none"
                                THEN GroupByHour(items, i + 1,
                                                 AppendToHour(withHour, dt.hour, f.v))
                                ELSE IF f.exc \in {"ValueError", "AttributeError"}
                                THEN GroupByHour(items, i + 1, withHour)
                                ELSE [exc |-> f.exc, hourly_consumption |-> withHour]

\* statistics.mean(consumptions) as the exact fraction num/den
HourlyAverages(hourly_consumption) ==
    [k \in 1..Len(hourly_consumption) |->
        [hour |-> hourly_consumption[k].hour,
         num  |-> SumSeq(hourly_consumption[k].consumptions),
         den  |-> Len(hourly_consumption[k].consumptions)]]

\* a.num/a.den < b.num/b.den
LessAvg(a, b) == a.num * b.den < b.num * a.den

\* InsertDesc with the tie handled the other way round: x goes before the
\* entries with an equal average
RECURSIVE InsertDescBeforeEqual(_, _)
InsertDescBeforeEqual(x, s) ==
    IF s = <<>> THEN <<x>>
    ELSE IF ~LessAvg(x, Head(s)) THEN <<x>> \o s
    ELSE <<Head(s)>> \o InsertDescBeforeEqual(x, Tail(s))

\* insert x into s, sorted by average descending, after the entries that
\* do not rank below it (the sort is stable)
RECURSIVE InsertDesc(_, _)
InsertDesc(x, s) == IF s = <<>> THEN <<x>>
                    ELSE IF LessAvg(Head(s), x) THEN <<x>> \o s
                    ELSE <<Head(s)>> \o InsertDesc(x, Tail(s))

\* sorted(hourly_averages.items(), key=lambda x: x[1], reverse=True)
RECURSIVE SortByAverageDesc(_)
SortByAverageDesc(s) ==
    IF s = <<>> THEN <<>>
    ELSE InsertDesc(s[Len(s)], SortByAverageDesc(SubSeq(s, 1, Len(s) - 1)))

\* s[:n]
SliceTo(s, n) ==
    LET k == IF n >= 0 THEN (IF n < Len(s) THEN n ELSE Len(s))
             ELSE (IF Len(s) + n > 0 THEN Len(s) + n ELSE 0)
    IN  SubSeq(s, 1, k)

\* the sum of the fractions of s as one fraction
RECURSIVE SumAvg(_)
SumAvg(s) == IF s = <<>> THEN [num |-> 0, den |-> 1]
             ELSE LET r == SumAvg(Tail(s)) IN
                  [num |-> Head(s).num * r.den + r.num * Head(s).den,
                   den |-> Head(s).den * r.den]

HourOfKey(key, top) == CHOOSE k \in 1..Len(top) : ToString(top[k].hour) = key

detect_peak_hours(consumption_data, top_n) ==
    IF ~Truthy(consumption_data) \/ ~IsList(consumption_data)
    THEN ErrorResult("consumption_data must be a non-empty list")
    ELSE LET g == GroupByHour(consumption_data.items, 1, <<>>)
             hourly_consumption == g.hourly_consumption
         IN  IF g.exc # "none"
             THEN ErrorResult("Failed to detect peak hours: " \o g.exc)
             ELSE IF hourly_consumption = <<>>
             THEN ErrorResult("Could not extract hourly consumption data")
             ELSE IF \E k \in 1..Len(hourly_consumption) :
                        hourly_consumption[k].consumptions = <<>>
             THEN ErrorResult("Failed to detect peak hours: StatisticsError")
             ELSE LET sorted_hours == SortByAverageDesc(HourlyAverages(hourly_consumption))
                      top == SliceTo(sorted_hours, top_n)
                      total == SumAvg(top)
                  IN  IF top = <<>>
                      THEN ErrorResult("Failed to detect peak hours: StatisticsError")
                      ELSE [status |-> "success",
                            peak_hours |-> [k \in 1..Len(top) |-> top[k].hour],
                            peak_hours_consumption |->
                                [key \in {ToString(top[k].hour) : k \in 1..Len(top)} |->
                                    LET e == top[HourOfKey(key, top)]
                                    IN  RoundHalfEven(e.num, e.den)],
                            average_peak_consumption |->
                                RoundHalfEven(total.num, total.den * Len(top)),
                            total_hours_analyzed |-> Len(hourly_consumption)]

-----------------------------------------------------------------------------
(* calculate_cost_by_rate_tier *)

DefaultRate == 150          \* 0.15 USD/kWh, the rate charged when a tier names none
DefaultSortRate == 0        \* the rate a tier without one is sorted by

\* the tiers of the module's own demonstration and variants of them
OffPeakTier == [tier |-> "off-peak", rate_per_kwh |-> 100, threshold_kwh |-> 200]
StandardTier == [tier |-> "standard", rate_per_kwh |-> 150, threshold_kwh |-> 500]
PeakTier == [tier |-> "peak", rate_per_kwh |-> 250, threshold_kwh |-> 1000]

\* tiers the function accepts although their rate or threshold is negative
NegativeRateTier == [tier |-> "credit", rate_per_kwh |-> -100, threshold_kwh |-> 200]
NegativeThresholdTier == [tier |-> "refund", rate_per_kwh |-> 100, threshold_kwh |-> -200]

Tiers == {OffPeakTier, StandardTier, PeakTier,
          NegativeRateTier, NegativeThresholdTier,
          [rate |-> 150],
          [rate_per_kwh |-> 100],
          [threshold_kwh |-> 200],
          [tier_name |-> "both", rate_per_kwh |-> 250, rate |-> 100, threshold_kwh |-> 500]}

TierLists == {PyList(s) : s \in SeqsUpTo(Tiers, MaxTiers)}

RateTiers == TierLists \cup {PyNone, PyTuple(<<StandardTier>>)}

Consumptions == {-100, 0, 150, 850}

\* float(tier.get('rate_per_kwh', tier.get('rate', 0.15))): the rate charged
ChargedRate(tier) == Get(tier, "rate_per_kwh", Get(tier, "rate", DefaultRate))

\* float(x.get('rate_per_kwh', x.get('rate', 0))): the sort key
SortRate(tier) == Get(tier, "rate_per_kwh", Get(tier, "rate", DefaultSortRate))

\* insert x into s, ascending by sort key, after the entries with an equal key
RECURSIVE InsertByRate(_, _)
InsertByRate(x, s) == IF s = <<>> THEN <<x>>
                      ELSE IF SortRate(x) < SortRate(Head(s)) THEN <<x>> \o s
                      ELSE <<Head(s)>> \o InsertByRate(x, Tail(s))

\* sorted(rate_tiers, key=...): a new list, stable
RECURSIVE SortTiers(_)
SortTiers(s) ==
    IF s = <<>> THEN <<>>
    ELSE InsertByRate(s[Len(s)], SortTiers(SubSeq(s, 1, Len(s) - 1)))

Min2(a, b) == IF a <= b THEN a ELSE b

\* the allocation loop over sorted_tiers from position i on; total_cost is
\* in mills, each breakdown cost in cents
RECURSIVE Allocate(_, _, _, _, _)
Allocate(sorted_tiers, i, remaining_kwh, total_cost, breakdown) ==
    IF i > Len(sorted_tiers) \/ remaining_kwh <= 0
    THEN [total_cost |-> total_cost, breakdown |-> breakdown,
          remaining_kwh |-> remaining_kwh]
    ELSE LET tier == sorted_tiers[i]
             rate == ChargedRate(tier)
             threshold == Get(tier, "threshold_kwh", remaining_kwh)
             tier_kwh == Min2(remaining_kwh, threshold)
             tier_cost == tier_kwh * rate
             entry == [tier |-> Get(tier, "tier_name",
                                    Get(tier, "tier",
                                        "tier_" \o ToString(Len(breakdown) + 1))),
                       kwh  |-> tier_kwh,
                       rate |-> rate,
                       cost |-> RoundHalfEven(tier_cost, 10)]
         IN  Allocate(sorted_tiers, i + 1, remaining_kwh - tier_kwh,
                      total_cost + tier_cost, Append(breakdown, entry))

\* SingleTierResult with the tier's threshold honoured, as in the loop
SingleTierResultCapped(consumption_kwh, tier) ==
    LET rate == ChargedRate(tier)
        tier_kwh == Min2(consumption_kwh, Get(tier, "threshold_kwh", consumption_kwh))
        total_cost == tier_kwh * rate
    IN  [status |-> "success",
         total_cost |-> RoundHalfEven(total_cost, 10),
         currency |-> "USD",
         tier_breakdown |-> <<[tier |-> Get(tier, "tier_name",
                                            Get(tier, "tier", "standard")),
                               kwh  |-> tier_kwh,
                               rate |-> rate,
                               cost |-> RoundHalfEven(total_cost, 10)]>>]

\* the flat-rate return of the one-tier case
SingleTierResult(consumption_kwh, tier) ==
    LET rate == ChargedRate(tier)
        total_cost == consumption_kwh * rate
    IN  [status |-> "success",
         total_cost |-> RoundHalfEven(total_cost, 10),
         currency |-> "USD",
         tier_breakdown |-> <<[tier |-> Get(tier, "tier_name",
                                            Get(tier, "tier", "standard")),
                               kwh  |-> consumption_kwh,
                               rate |-> rate,
                               cost |-> RoundHalfEven(total_cost, 10)]>>]

\* MultiTierResult with the average rate taken over the kWh that were
\* allocated instead of the whole consumption
MultiTierResultAverageOfAllocated(consumption_kwh, tiers) ==
    LET a == Allocate(SortTiers(tiers), 1, consumption_kwh, 0, <<>>)
    IN  [status |-> "success",
         total_cost |-> RoundHalfEven(a.total_cost, 10),
         currency |-> "USD",
         tier_breakdown |-> a.breakdown,
         average_rate |-> RoundHalfEven(a.total_cost,
                                        consumption_kwh - a.remaining_kwh)]

\* the progressive return of the multi-tier case
MultiTierResult(consumption_kwh, tiers) ==
    LET a == Allocate(SortTiers(tiers), 1, consumption_kwh, 0, <<>>)
    IN  [status |-> "success",
         total_cost |-> RoundHalfEven(a.total_cost, 10),
         currency |-> "USD",
         tier_breakdown |-> a.breakdown,
         average_rate |-> RoundHalfEven(a.total_cost, consumption_kwh)]

\* calculate_cost_by_rate_tier with the tier list checked before the
\* consumption
CostByRateTierTiersFirst(consumption_kwh, rate_tiers) ==
    IF ~Truthy(rate_tiers) \/ ~IsList(rate_tiers)
    THEN ErrorResult("rate_tiers must be a non-empty list")
    ELSE IF consumption_kwh <= 0
    THEN ErrorResult("consumption_kwh must be greater than 0")
    ELSE IF Len(rate_tiers.items) = 1
    THEN SingleTierResult(consumption_kwh, rate_tiers.items[1])
    ELSE MultiTierResult(consumption_kwh, rate_tiers.items)

calculate_cost_by_rate_tier(consumption_kwh, rate_tiers) ==
    IF consumption_kwh <= 0
    THEN ErrorResult("consumption_kwh must be greater than 0")
    ELSE IF ~Truthy(rate_tiers) \/ ~IsList(rate_tiers)
    THEN ErrorResult("rate_tiers must be a non-empty list")
    ELSE IF Len(rate_tiers.items) = 1
    THEN SingleTierResult(consumption_kwh, rate_tiers.items[1])
    ELSE MultiTierResult(consumption_kwh, rate_tiers.items)

-----------------------------------------------------------------------------
(* estimate_savings_potential *)

MonthlyKwh == {-100, 0, 850}
Percentages == {-5, 0, 10, 15, 100, 101}
Rates == {-150, 0, 125, 150}

\* SavingsFigures with the annual savings taken from the rounded monthly
\* savings
SavingsFiguresAnnualOfRounded(current_consumption_kwh, reduction_percentage, rate_per_kwh) ==
    LET kwh_saved_monthly == current_consumption_kwh * reduction_percentage
        kwh_saved_annually == kwh_saved_monthly * 12
        monthly_savings == kwh_saved_monthly * rate_per_kwh
        current_monthly_cost == current_consumption_kwh * rate_per_kwh * 100
        new_monthly_cost == current_monthly_cost - monthly_savings
    IN  [status |-> "success",
         monthly_savings_usd |-> RoundHalfEven(monthly_savings, 1000),
         annual_savings_usd |-> RoundHalfEven(monthly_savings, 1000) * 12,
         kwh_saved_monthly |-> kwh_saved_monthly,
         kwh_saved_annually |-> kwh_saved_annually,
         current_monthly_cost |-> RoundHalfEven(current_monthly_cost, 1000),
         new_monthly_cost |-> RoundHalfEven(new_monthly_cost, 1000),
         reduction_percentage |-> reduction_percentage]

\* SavingsFigures with the new cost taken from the rounded current cost and
\* the rounded monthly savings
SavingsFiguresNewOfRounded(current_consumption_kwh, reduction_percentage, rate_per_kwh) ==
    LET kwh_saved_monthly == current_consumption_kwh * reduction_percentage
        kwh_saved_annually == kwh_saved_monthly * 12
        monthly_savings == kwh_saved_monthly * rate_per_kwh
        annual_savings == monthly_savings * 12
        current_monthly_cost == current_consumption_kwh * rate_per_kwh * 100
    IN  [status |-> "success",
         monthly_savings_usd |-> RoundHalfEven(monthly_savings, 1000),
         annual_savings_usd |-> RoundHalfEven(annual_savings, 1000),
         kwh_saved_monthly |-> kwh_saved_monthly,
         kwh_saved_annually |-> kwh_saved_annually,
         current_monthly_cost |-> RoundHalfEven(current_monthly_cost, 1000),
         new_monthly_cost |-> RoundHalfEven(current_monthly_cost, 1000)
                                 - RoundHalfEven(monthly_savings, 1000),
         reduction_percentage |-> reduction_percentage]

\* the savings calculation and the success result; kWh results are in
\* hundredths of a kWh, money results in cents
SavingsFigures(current_consumption_kwh, reduction_percentage, rate_per_kwh) ==
    LET kwh_saved_monthly == current_consumption_kwh * reduction_percentage
                                   \* in hundredths of a kWh
        kwh_saved_annually == kwh_saved_monthly * 12
        monthly_savings == kwh_saved_monthly * rate_per_kwh
                                   \* in 1/100000 USD
        annual_savings == monthly_savings * 12
        current_monthly_cost == current_consumption_kwh * rate_per_kwh * 100
        new_monthly_cost == current_monthly_cost - monthly_savings
    IN  [status |-> "success",
         monthly_savings_usd |-> RoundHalfEven(monthly_savings, 1000),
         annual_savings_usd |-> RoundHalfEven(annual_savings, 1000),
         kwh_saved_monthly |-> kwh_saved_monthly,
         kwh_saved_annually |-> kwh_saved_annually,
         current_monthly_cost |-> RoundHalfEven(current_monthly_cost, 1000),
         new_monthly_cost |-> RoundHalfEven(new_monthly_cost, 1000),
         reduction_percentage |-> reduction_percentage]

\* estimate_savings_potential with the bounds of the percentage excluded
EstimateSavingsStrictPercentage(current_consumption_kwh, reduction_percentage, rate_per_kwh) ==
    IF current_consumption_kwh <= 0
    THEN ErrorResult("current_consumption_kwh must be greater than 0")
    ELSE IF ~(0 < reduction_percentage /\ reduction_percentage < 100)
    THEN ErrorResult("reduction_percentage must be between 0 and 100")
    ELSE IF rate_per_kwh <= 0
    THEN ErrorResult("rate_per_kwh must be greater than 0")
    ELSE SavingsFigures(current_consumption_kwh, reduction_percentage, rate_per_kwh)

estimate_savings_potential(current_consumption_kwh, reduction_percentage, rate_per_kwh) ==
    IF current_consumption_kwh <= 0
    THEN ErrorResult("current_consumption_kwh must be greater than 0")
    ELSE IF ~(0 <= reduction_percentage /\ reduction_percentage <= 100)
    THEN ErrorResult("reduction_percentage must be between 0 and 100")
    ELSE IF rate_per_kwh <= 0
    THEN ErrorResult("rate_per_kwh must be greater than 0")
    ELSE SavingsFigures(current_consumption_kwh, reduction_percentage, rate_per_kwh)

-----------------------------------------------------------------------------
(* The calls *)

Pending == [status |-> "pending"]
NoOrch == <<>>
NoCall == [method |-> "none", stmt |-> 0]
NoCalls == 0

InitStats ==
    /\ fn = "stats"
    /\ \E d \in ConsumptionData : args = [consumption_data |-> d]

TopNs == {-1, 0, 1, 5}

InitPeak ==
    /\ fn = "peak"
    /\ \E d \in ConsumptionData, n \in TopNs : args = [consumption_data |-> d, top_n |-> n]

InitCost ==
    /\ fn = "cost"
    /\ \E c \in Consumptions, t \in RateTiers :
          args = [consumption_kwh |-> c, rate_tiers |-> t]

InitSavings ==
    /\ fn = "savings"
    /\ \E c \in MonthlyKwh, p \in Percentages, r \in Rates :
          args = [current_consumption_kwh |-> c, reduction_percentage |-> p,
                  rate_per_kwh |-> r]

Init ==
    /\ (InitStats \/ InitPeak \/ InitCost \/ InitSavings)
    /\ result = Pending
    /\ orch = NoOrch /\ opc = NoCall /\ failAt = 0 /\ locals = <<>> /\ calls = NoCalls

CallStatistics ==
    /\ fn = "stats" /\ result = Pending
    /\ result' = calculate_consumption_statistics(args.consumption_data)
    /\ UNCHANGED <<fn, args, orchVars>>

CallPeakHours ==
    /\ fn = "peak" /\ result = Pending
    /\ result' = detect_peak_hours(args.consumption_data, args.top_n)
    /\ UNCHANGED <<fn, args, orchVars>>

\* CallCostByRateTier with the caller's list sorted in place
\* (rate_tiers.sort(key=...)) instead of copied by sorted()
CallCostByRateTierSortInPlace ==
    /\ fn = "cost" /\ result = Pending
    /\ result' = calculate_cost_by_rate_tier(args.consumption_kwh, args.rate_tiers)
    /\ args' = IF IsList(args.rate_tiers) /\ Len(args.rate_tiers.items) >= 2
                  /\ args.consumption_kwh > 0
               THEN [args EXCEPT !.rate_tiers.items = SortTiers(@)]
               ELSE args
    /\ UNCHANGED <<fn, orchVars>>

CallCostByRateTier ==
    /\ fn = "cost" /\ result = Pending
    /\ result' = calculate_cost_by_rate_tier(args.consumption_kwh, args.rate_tiers)
    /\ UNCHANGED <<fn, args, orchVars>>

CallSavingsPotential ==
    /\ fn = "savings" /\ result = Pending
    /\ result' = estimate_savings_potential(args.current_consumption_kwh,
                                            args.reduction_percentage,
                                            args.rate_per_kwh)
    /\ UNCHANGED <<fn, args, orchVars>>

Next == CallStatistics \/ CallPeakHours \/ CallCostByRateTier \/ CallSavingsPotential

Spec == Init /\ [][Next]_vars

-----------------------------------------------------------------------------
(* EnergyAgentOrchestrator: construction *)

\* self.name = value
SetAttr(o, name, value) ==
    [k \in DOMAIN o \cup {name} |-> IF k = name THEN value ELSE o[k]]

\* the ADK objects, by the keyword arguments that tell them apart
Agent(name, model, tools, output_key) ==
    [pytype |-> "Agent", name |-> name, model |-> model, tools |-> tools,
     output_key |-> output_key]
BasicAgent(name, model) == [pytype |-> "Agent", name |-> name, model |-> model]
SequentialAgent(name, sub_agents) ==
    [pytype |-> "SequentialAgent", name |-> name, sub_agents |-> sub_agents]
ParallelAgent(name, sub_agents) ==
    [pytype |-> "ParallelAgent", name |-> name, sub_agents |-> sub_agents]
PyNoneObject == [pytype |-> "NoneType"]

\* the constructor calls of the full setup, numbered as failAt numbers them
AgentsWithToolsCalls == 3
WorkflowsCalls == 6
BasicStatements == 6

At(method, stmt) == [method |-> method, stmt |-> stmt]

\* statement k of _setup_agents_with_tools
AgentsWithToolsStmt(k, o) ==
    CASE k = 1 -> SetAttr(o, "bill_parser_with_tools",
                     Agent("BillParserWithTools", "gemini-2.5-flash",
                           {"calculate_cost_by_rate_tier"}, "parsed_bill"))
      [] k = 2 -> SetAttr(o, "meter_analyzer_with_tools",
                     Agent("MeterAnalyzerWithTools", "gemini-2.5-flash",
                           {"calculate_consumption_statistics", "detect_peak_hours"},
                           "meter_analysis"))
      [] k = 3 -> SetAttr(o, "recommendation_engine_with_tools",
                     Agent("RecommendationEngineWithTools", "gemini-2.5-flash",
                           {"estimate_savings_potential"}, "recommendations"))

\* WorkflowsStmt with the parallel team built from the agents of the
\* sequential workflow instead of agents of its own
WorkflowsStmtSharedAgents(k, o, l) ==
    CASE k = 1 -> [orch |-> o,
                   locals |-> SetAttr(l, "meter_analyzer_parallel",
                       Agent("MeterAnalyzerParallel", "gemini-2.5-flash",
                             {"calculate_consumption_statistics", "detect_peak_hours"},
                             "meter_analysis"))]
      [] k = 2 -> [orch |-> o,
                   locals |-> SetAttr(l, "anomaly_detector_parallel",
                       Agent("AnomalyDetectorParallel", "gemini-2.5-flash", {},
                             "anomaly_report"))]
      [] k = 3 -> [orch |-> o,
                   locals |-> SetAttr(l, "anomaly_detector_sequential",
                       Agent("AnomalyDetectorSequential", "gemini-2.5-flash", {},
                             "anomaly_report"))]
      [] k = 4 -> [orch |-> SetAttr(o, "sequential_workflow",
                       SequentialAgent("SequentialEnergyAnalysis",
                           <<o.bill_parser_with_tools,
                             o.meter_analyzer_with_tools,
                             l.anomaly_detector_sequential,
                             o.recommendation_engine_with_tools>>)),
                   locals |-> l]
      [] k = 5 -> [orch |-> SetAttr(o, "parallel_analysis_team",
                       ParallelAgent("ParallelAnalysisTeam",
                           <<o.meter_analyzer_with_tools, l.anomaly_detector_sequential>>)),
                   locals |-> l]
      [] k = 6 -> [orch |-> SetAttr(o, "root_coordinator",
                       Agent("EnergyAnalysisCoordinator", "gemini-2.0-flash-exp", {},
                             "coordination_plan")),
                   locals |-> l]

\* statement k of _setup_workflows: the attributes and the locals after it
WorkflowsStmt(k, o, l) ==
    CASE k = 1 -> [orch |-> o,
                   locals |-> SetAttr(l, "meter_analyzer_parallel",
                       Agent("MeterAnalyzerParallel", "gemini-2.5-flash",
                             {"calculate_consumption_statistics", "detect_peak_hours"},
                             "meter_analysis"))]
      [] k = 2 -> [orch |-> o,
                   locals |-> SetAttr(l, "anomaly_detector_parallel",
                       Agent("AnomalyDetectorParallel", "gemini-2.5-flash", {},
                             "anomaly_report"))]
      [] k = 3 -> [orch |-> o,
                   locals |-> SetAttr(l, "anomaly_detector_sequential",
                       Agent("AnomalyDetectorSequential", "gemini-2.5-flash", {},
                             "anomaly_report"))]
      [] k = 4 -> [orch |-> SetAttr(o, "sequential_workflow",
                       SequentialAgent("SequentialEnergyAnalysis",
                           <<o.bill_parser_with_tools,
                             o.meter_analyzer_with_tools,
                             l.anomaly_detector_sequential,
                             o.recommendation_engine_with_tools>>)),
                   locals |-> l]
      [] k = 5 -> [orch |-> SetAttr(o, "parallel_analysis_team",
                       ParallelAgent("ParallelAnalysisTeam",
                           <<l.meter_analyzer_parallel, l.anomaly_detector_parallel>>)),
                   locals |-> l]
      [] k = 6 -> [orch |-> SetAttr(o, "root_coordinator",
                       Agent("EnergyAnalysisCoordinator", "gemini-2.0-flash-exp", {},
                             "coordination_plan")),
                   locals |-> l]

\* BasicAgentsStmt without the reset of parallel_analysis_team
BasicAgentsStmtKeepTeam(k, o) ==
    CASE k = 1 -> SetAttr(o, "bill_parser_with_tools",
                     BasicAgent("BillParser", "gemini-2.5-flash"))
      [] k = 2 -> SetAttr(o, "meter_analyzer_with_tools",
                     BasicAgent("MeterAnalyzer", "gemini-2.5-flash"))
      [] k = 3 -> SetAttr(o, "recommendation_engine_with_tools",
                     BasicAgent("RecommendationEngine", "gemini-2.5-flash"))
      [] k = 4 -> SetAttr(o, "sequential_workflow",
                     SequentialAgent("BasicEnergyAnalysis",
                         <<o.bill_parser_with_tools,
                           o.meter_analyzer_with_tools,
                           o.recommendation_engine_with_tools>>))
      [] k = 5 -> o
      [] k = 6 -> SetAttr(o, "root_coordinator",
                     BasicAgent("EnergyAnalysisCoordinator", "gemini-2.5-flash"))

\* statement k of _setup_basic_agents
BasicAgentsStmt(k, o) ==
    CASE k = 1 -> SetAttr(o, "bill_parser_with_tools",
                     BasicAgent("BillParser", "gemini-2.5-flash"))
      [] k = 2 -> SetAttr(o, "meter_analyzer_with_tools",
                     BasicAgent("MeterAnalyzer", "gemini-2.5-flash"))
      [] k = 3 -> SetAttr(o, "recommendation_engine_with_tools",
                     BasicAgent("RecommendationEngine", "gemini-2.5-flash"))
      [] k = 4 -> SetAttr(o, "sequential_workflow",
                     SequentialAgent("BasicEnergyAnalysis",
                         <<o.bill_parser_with_tools,
                           o.meter_analyzer_with_tools,
                           o.recommendation_engine_with_tools>>))
      [] k = 5 -> SetAttr(o, "parallel_analysis_team", PyNoneObject)
      [] k = 6 -> SetAttr(o, "root_coordinator",
                     BasicAgent("EnergyAnalysisCoordinator", "gemini-2.5-flash"))

\* __init__ up to the try block
Construct ==
    /\ opc = At("__init__", 1)
    /\ orch' = SetAttr(SetAttr(orch, "use_database_sessions", args.use_database_sessions),
                       "session_service", [pytype |-> "InMemorySessionService"])
    /\ opc' = At("_setup_agents_with_tools", 1)
    /\ UNCHANGED <<toolVars, failAt, locals, calls>>

\* one statement of _setup_agents_with_tools; a raising constructor call
\* leaves the try block for the except clause
SetupAgentsWithTools ==
    /\ opc.method = "_setup_agents_with_tools"
    /\ IF failAt = opc.stmt
       THEN /\ opc' = At("_setup_basic_agents", 1)
            /\ UNCHANGED orch
       ELSE /\ orch' = AgentsWithToolsStmt(opc.stmt, orch)
            /\ opc' = IF opc.stmt < AgentsWithToolsCalls
                      THEN At("_setup_agents_with_tools", opc.stmt + 1)
                      ELSE At("_setup_workflows", 1)
    /\ UNCHANGED <<toolVars, failAt, locals, calls>>

\* one statement of _setup_workflows; a raising constructor call leaves the
\* try block for the except clause and the method's locals are gone
SetupWorkflows ==
    /\ opc.method = "_setup_workflows"
    /\ IF failAt = AgentsWithToolsCalls + opc.stmt
       THEN /\ opc' = At("_setup_basic_agents", 1)
            /\ locals' = <<>>
            /\ UNCHANGED orch
       ELSE /\ orch' = WorkflowsStmt(opc.stmt, orch, locals).orch
            /\ IF opc.stmt < WorkflowsCalls
               THEN /\ opc' = At("_setup_workflows", opc.stmt + 1)
                    /\ locals' = WorkflowsStmt(opc.stmt, orch, locals).locals
               ELSE /\ opc' = At("constructed", 0)
                    /\ locals' = <<>>
    /\ UNCHANGED <<toolVars, failAt, calls>>

\* one statement of _setup_basic_agents, run by the except clause
SetupBasicAgents ==
    /\ opc.method = "_setup_basic_agents"
    /\ orch' = BasicAgentsStmt(opc.stmt, orch)
    /\ opc' = IF opc.stmt < BasicStatements
              THEN At("_setup_basic_agents", opc.stmt + 1)
              ELSE At("constructed", 0)
    /\ UNCHANGED <<toolVars, failAt, locals, calls>>

-----------------------------------------------------------------------------
(* EnergyAgentOrchestrator._extract_result *)

\* A response text is a string of tokens: prose, the two braces and a
\* JSON member "k": 1; a part that carries no text has text None.
Tokens == {"x", "{", "}", "\"k\": 1"}
Str(chars) == [t |-> "str", chars |-> chars]
Texts == {Str(c) : c \in SeqsUpTo(Tokens, MaxText)} \cup {PyNoneValue}

\* types.Content and the events an agent run yields
Content(parts) == [pytype |-> "Content", parts |-> parts]
Part(text) == [text |-> text]
EventWithoutContent == [pytype |-> "Event"]
Event(content) == [pytype |-> "Event", content |-> content]
TextEvent(text) == Event(Content(PyList(<<Part(text)>>)))

Events ==
    {EventWithoutContent, Event(PyNoneObject), Event(Content(PyNone)),
     Event(Content(PyList(<<>>)))}
    \cup {TextEvent(t) : t \in Texts}
    \cup {Event(Content(PyList(<<Part(Str(<<"x">>)), Part(Str(<<"{", "}">>))>>)))}

\* the events that precede the final one in a run
EarlierEvents ==
    {EventWithoutContent, TextEvent(Str(<<"x">>)), TextEvent(Str(<<"{", "\"k\": 1", "}">>))}

\* what run_debug returns (a list of events) and what the loop over
\* run_async leaves in last_event (an event, or None)
EventLists ==
    {PyList(<<>>)} \cup
    {PyList(earlier \o <<last>>) :
        earlier \in SeqsUpTo(EarlierEvents, MaxEvents - 1), last \in Events}
AgentResults == EventLists \cup Events \cup {PyNoneObject}

NoResponse == [status |-> "error", message |-> "No response from agent"]
TextWrapper(response_text) ==
    [response |-> response_text, status |-> "success", full_text |-> response_text]

\* tok in s
In(tok, s) == \E k \in 1..Len(s) : s[k] = tok
\* s.index(tok), s.rindex(tok), counted from 1
Index(s, tok) == CHOOSE k \in 1..Len(s) : s[k] = tok /\ \A j \in 1..(k - 1) : s[j] # tok
RIndex(s, tok) == CHOOSE k \in 1..Len(s) : s[k] = tok /\ \A j \in (k + 1)..Len(s) : s[j] # tok

\* json.loads: the dictionary, or the JSONDecodeError
JsonObject(keys) == [k \in keys |-> 1]
JsonLoads(json_str) ==
    CASE json_str = <<"{", "}">>             -> [exc |-> "none", v |-> JsonObject({})]
      [] json_str = <<"{", "\"k\": 1", "}">> -> [exc |-> "none", v |-> JsonObject({"k"})]
      [] OTHER                               -> [exc |-> "JSONDecodeError"]

\* the try block and the wrapper after it; a text of None raises TypeError
\* at the membership test, which the bare except swallows
TextResult(response_text) ==
    IF response_text.t = "NoneType"
    THEN TextWrapper(response_text)
    ELSE LET chars == response_text.chars IN
         IF In("{", chars) /\ In("}", chars)
         THEN LET json_start == Index(chars, "{")
                  json_end == RIndex(chars, "}")
                  json_str == SubSeq(chars, json_start, json_end)
                  loaded == JsonLoads(json_str)
              IN  IF loaded.exc = "none" THEN loaded.v ELSE TextWrapper(response_text)
         ELSE TextWrapper(response_text)

\* hasattr(e, 'content') and e.content and e.content.parts
HasContentParts(e) ==
    /\ "content" \in DOMAIN e
    /\ e.content.pytype # "NoneType"
    /\ Truthy(e.content.parts)

\* bool(result) of a list, an event or None
ResultTruthy(r) ==
    /\ r.pytype # "NoneType"
    /\ r.pytype = "list" => Len(r.items) > 0

\* _extract_result reading the first event of the list instead of the last
ExtractResultFirstEvent(r) ==
    IF IsList(r) /\ Len(r.items) > 0
    THEN LET last_event == r.items[1] IN
         IF HasContentParts(last_event)
         THEN TextResult(last_event.content.parts.items[1].text)
         ELSE NoResponse
    ELSE IF ResultTruthy(r) /\ HasContentParts(r)
         THEN TextResult(r.content.parts.items[1].text)
         ELSE NoResponse

_extract_result(r) ==
    IF IsList(r) /\ Len(r.items) > 0
    THEN LET last_event == r.items[Len(r.items)] IN
         IF HasContentParts(last_event)
         THEN TextResult(last_event.content.parts.items[1].text)
         ELSE NoResponse
    ELSE IF ResultTruthy(r) /\ HasContentParts(r)
         THEN TextResult(r.content.parts.items[1].text)
         ELSE NoResponse

InitExtract ==
    /\ fn = "_extract_result"
    /\ \E r \in AgentResults : args = [result |-> r]
    /\ result = Pending
    /\ orch = NoOrch /\ opc = NoCall /\ failAt = 0 /\ locals = <<>> /\ calls = NoCalls

CallExtractResult ==
    /\ fn = "_extract_result"
    /\ result = Pending
    /\ result' = _extract_result(args.result)
    /\ UNCHANGED <<fn, args, orchVars>>

NextExtract == CallExtractResult

SpecExtract == InitExtract /\ [][NextExtract]_vars

-----------------------------------------------------------------------------
(* EnergyAgentOrchestrator: the public entry points *)

ReadingLimit == 50      \* meter_data[:50]
MaxCalls == 2           \* counted calls on one orchestrator
MaxThreads == 2         \* threads calling one orchestrator at a time

Idle == At("constructed", 0)

\* meter readings, told apart by their timestamps
MeterReading(i) == [timestamp |-> i, consumption_kwh |-> 100 + i]
MeterData ==
    {PyList(<<>>), PyList(<<MeterReading(2), MeterReading(1)>>),
     PyList([i \in 1..ReadingLimit |-> MeterReading(i)]),
     PyList([i \in 1..(ReadingLimit + 1) |-> MeterReading(i)])}

BillText == [t |-> "str", text |-> "Account 42: 850 kWh"]
BillData == {PyNoneValue, BillText}
BillPaths ==
    {PyNoneValue,
     [t |-> "str", path |-> "bill.txt", exists |-> TRUE, content |-> BillText],
     [t |-> "str", path |-> "missing.txt", exists |-> FALSE]}
CsvPaths ==
    {[t |-> "str", path |-> "meter.csv", exists |-> TRUE, records |-> m.items] :
        m \in MeterData}
    \cup {[t |-> "str", path |-> "missing.csv", exists |-> FALSE]}

\* what an agent run yields in these calls: the event list of run_debug,
\* and the last event of run_async (None if the run yields no event)
RunDebugResults ==
    {PyList(<<>>),
     PyList(<<TextEvent(Str(<<"x">>)), TextEvent(Str(<<"{", "\"k\": 1", "}">>))>>)}
LastEvents == {PyNoneObject, TextEvent(Str(<<"x">>))}

Raised(exc) == [exc |-> exc]

\* a request is a string of lines: fixed text, and one line per reading
TextLine(text) == <<"text", text>>
ReadingLine(reading) == <<"reading", reading.timestamp, reading.consumption_kwh>>
\* str(v) in an f-string
StrOf(v) == IF v.t = "NoneType" THEN "None" ELSE v.text

\* ReadingLines without the slice: a line for every reading of the list
ReadingLinesUnlimited(meter_data) ==
    [k \in 1..Len(meter_data.items) |-> ReadingLine(meter_data.items[k])]

\* for reading in meter_data[:50]: request += ...
ReadingLines(meter_data) ==
    LET shown == SliceTo(meter_data.items, ReadingLimit)
    IN  [k \in 1..Len(shown) |-> ReadingLine(shown[k])]

InMemoryRunner(agent) == [pytype |-> "InMemoryRunner", agent |-> agent]
Runner(agent, app_name, session_service) ==
    [pytype |-> "Runner", agent |-> agent, app_name |-> app_name,
     session_service |-> session_service]

\* the run and the extraction of its result; a runner that was handed no
\* agent has nothing to run and the call ends in an exception
RunAndExtract(runner, yielded) ==
    IF runner.agent = PyNoneObject THEN Raised("Exception")
    ELSE _extract_result(yielded)

\* the counter's lazy creation and its increment
IncrementCount(o) ==
    LET created == IF "_analyses_count" \in DOMAIN o THEN o
                   ELSE SetAttr(o, "_analyses_count", 0)
    IN  SetAttr(created, "_analyses_count", created._analyses_count + 1)

get_session_summary(o) ==
    LET with_id == IF "_session_id" \in DOMAIN o THEN o
                   ELSE SetAttr(o, "_session_id", "uuid4")
        created == IF "_analyses_count" \in DOMAIN with_id THEN with_id
                   ELSE SetAttr(with_id, "_analyses_count", 0)
    IN  [orch |-> created,
         result |-> [session_id |-> created._session_id,
                     analyses_performed |-> created._analyses_count,
                     status |-> "ready",
                     workflows_available |-> created.sequential_workflow # PyNoneObject,
                     agents_loaded |-> TRUE,
                     session_service |-> "InMemorySessionService"]]

analyze_complete(o, bill_data, meter_data, yielded) ==
    LET runner == InMemoryRunner(IF o.sequential_workflow # PyNoneObject
                                 THEN o.sequential_workflow
                                 ELSE o.root_coordinator)
        request ==
            <<TextLine("Perform a comprehensive energy analysis")>>
            \o (IF ~Falsy(bill_data)
                THEN <<TextLine("BILL DATA:"), TextLine(StrOf(bill_data))>>
                ELSE <<>>)
            \o (IF Truthy(meter_data)
                THEN <<TextLine("METER DATA:"), TextLine("Timestamp,Consumption_kWh")>>
                     \o ReadingLines(meter_data)
                ELSE <<>>)
            \o <<TextLine("Provide a detailed, well-structured response")>>
    IN  [locals |-> [runner |-> runner, request |-> request, meter_data |-> meter_data],
         result |-> RunAndExtract(runner, yielded)]

analyze_with_parallel(o, meter_data, yielded) ==
    LET runner == InMemoryRunner(o.parallel_analysis_team)
        request ==
            <<TextLine("Analyze this meter data:"), TextLine("Timestamp,Consumption_kWh")>>
            \o ReadingLines(meter_data)
    IN  [locals |-> [runner |-> runner, request |-> request, meter_data |-> meter_data],
         result |-> RunAndExtract(runner, yielded)]

analyze_sequential(o, bill_data, meter_data, last_event) ==
    LET runner == Runner(o.sequential_workflow, "SmartEnergyAgent", o.session_service)
        request ==
            <<TextLine("Analyze energy data:"), TextLine("BILL:"),
              TextLine(StrOf(bill_data)),
              TextLine("METER DATA:"), TextLine("Timestamp,Consumption_kWh")>>
            \o ReadingLines(meter_data)
    IN  [locals |-> [runner |-> runner, request |-> request, meter_data |-> meter_data],
         result |-> RunAndExtract(runner, last_event)]

chat(o, message, yielded) ==
    LET runner == InMemoryRunner(o.root_coordinator)
    IN  [locals |-> [runner |-> runner, request |-> <<TextLine(StrOf(message))>>],
         result |-> RunAndExtract(runner, yielded)]

\* analyze_bill counting the call only once the bill text is at hand
AnalyzeBillCountedAfterRead(o, bill_data, bill_path, yielded) ==
    IF ~Falsy(bill_path) /\ Falsy(bill_data) /\ ~bill_path.exists
    THEN [orch |-> o, locals |-> <<>>, result |-> Raised("FileNotFoundError")]
    ELSE LET text == IF ~Falsy(bill_path) /\ Falsy(bill_data)
                     THEN bill_path.content ELSE bill_data
             done == analyze_complete(IncrementCount(o), text, PyNone, yielded)
         IN  [orch |-> IncrementCount(o), locals |-> done.locals, result |-> done.result]

analyze_bill(o, bill_data, bill_path, yielded) ==
    LET counted == IncrementCount(o) IN
    IF ~Falsy(bill_path) /\ Falsy(bill_data) /\ ~bill_path.exists
    THEN [orch |-> counted, locals |-> <<>>, result |-> Raised("FileNotFoundError")]
    ELSE LET text == IF ~Falsy(bill_path) /\ Falsy(bill_data)
                     THEN bill_path.content ELSE bill_data
             done == analyze_complete(counted, text, PyNone, yielded)
         IN  [orch |-> counted, locals |-> done.locals, result |-> done.result]

analyze_meter_data(o, meter_data_path, yielded) ==
    LET counted == IncrementCount(o) IN
    IF ~meter_data_path.exists
    THEN [orch |-> counted, locals |-> <<>>, result |-> Raised("FileNotFoundError")]
    ELSE LET done == analyze_complete(counted, PyNoneValue,
                                      PyList(meter_data_path.records), yielded)
         IN  [orch |-> counted, locals |-> done.locals, result |-> done.result]

GetSessionSummary ==
    /\ opc = Idle
    /\ fn' = "get_session_summary"
    /\ args' = <<>>
    /\ orch' = get_session_summary(orch).orch
    /\ result' = get_session_summary(orch).result
    /\ locals' = <<>>
    /\ UNCHANGED <<opc, failAt, calls>>

AnalyzeBill ==
    /\ opc = Idle
    /\ calls < MaxCalls
    /\ \E bill_data \in BillData, bill_path \in BillPaths, yielded \in RunDebugResults :
          LET done == analyze_bill(orch, bill_data, bill_path, yielded) IN
          /\ fn' = "analyze_bill"
          /\ args' = [bill_data |-> bill_data, bill_path |-> bill_path]
          /\ orch' = done.orch
          /\ locals' = done.locals
          /\ result' = done.result
          /\ calls' = calls + 1
    /\ UNCHANGED <<opc, failAt>>

AnalyzeMeterData ==
    /\ opc = Idle
    /\ calls < MaxCalls
    /\ \E meter_data_path \in CsvPaths, yielded \in RunDebugResults :
          LET done == analyze_meter_data(orch, meter_data_path, yielded) IN
          /\ fn' = "analyze_meter_data"
          /\ args' = [meter_data_path |-> meter_data_path]
          /\ orch' = done.orch
          /\ locals' = done.locals
          /\ result' = done.result
          /\ calls' = calls + 1
    /\ UNCHANGED <<opc, failAt>>

AnalyzeComplete ==
    /\ opc = Idle
    /\ \E bill_data \in BillData, meter_data \in MeterData \cup {PyNone},
          yielded \in RunDebugResults :
          LET done == analyze_complete(orch, bill_data, meter_data, yielded) IN
          /\ fn' = "analyze_complete"
          /\ args' = [bill_data |-> bill_data, meter_data |-> meter_data]
          /\ locals' = done.locals
          /\ result' = done.result
    /\ UNCHANGED <<orch, opc, failAt, calls>>

AnalyzeWithParallel ==
    /\ opc = Idle
    /\ \E meter_data \in MeterData, yielded \in RunDebugResults :
          LET done == analyze_with_parallel(orch, meter_data, yielded) IN
          /\ fn' = "analyze_with_parallel"
          /\ args' = [meter_data |-> meter_data]
          /\ locals' = done.locals
          /\ result' = done.result
    /\ UNCHANGED <<orch, opc, failAt, calls>>

AnalyzeSequential ==
    /\ opc = Idle
    /\ \E bill_data \in BillData, meter_data \in MeterData, last_event \in LastEvents :
          LET done == analyze_sequential(orch, bill_data, meter_data, last_event) IN
          /\ fn' = "analyze_sequential"
          /\ args' = [bill_data |-> bill_data, meter_data |-> meter_data]
          /\ locals' = done.locals
          /\ result' = done.result
    /\ UNCHANGED <<orch, opc, failAt, calls>>

Chat ==
    /\ opc = Idle
    /\ \E yielded \in RunDebugResults :
          LET done == chat(orch, BillText, yielded) IN
          /\ fn' = "chat"
          /\ args' = [message |-> BillText]
          /\ locals' = done.locals
          /\ result' = done.result
    /\ UNCHANGED <<orch, opc, failAt, calls>>

-----------------------------------------------------------------------------
(* EnergyAgentOrchestrator: the specification of its construction and use *)

InitOrch ==
    /\ fn = "none"
    /\ \E b \in BOOLEAN : args = [use_database_sessions |-> b]
    /\ result = Pending
    /\ orch = <<>>
    /\ opc = At("__init__", 1)
    /\ failAt \in 0..(AgentsWithToolsCalls + WorkflowsCalls)
    /\ locals = <<>>
    /\ calls = NoCalls

NextOrch ==
    \/ Construct \/ SetupAgentsWithTools \/ SetupWorkflows \/ SetupBasicAgents
    \/ GetSessionSummary \/ AnalyzeBill \/ AnalyzeMeterData
    \/ AnalyzeComplete \/ AnalyzeWithParallel \/ AnalyzeSequential \/ Chat

SpecOrch == InitOrch /\ [][NextOrch]_vars

-----------------------------------------------------------------------------
(* EnergyAgentOrchestrator: analyze_bill and analyze_meter_data called from
   several threads. Each thread runs the counting statements of its call one
   step at a time: the hasattr test, the creation of the counter, and the
   read and the write of "+= 1"; no lock is held between them. *)

Threads == 1..MaxThreads

ThreadFrame(method, pc, loaded) == [method |-> method, pc |-> pc, loaded |-> loaded]

ThreadAt(t, pc) == t \in DOMAIN locals /\ locals[t].pc = pc

ThreadCall(t) ==
    /\ opc = Idle
    /\ t \notin DOMAIN locals
    /\ \E method \in {"analyze_bill", "analyze_meter_data"} :
          locals' = SetAttr(locals, t, ThreadFrame(method, "hasattr", 0))
    /\ calls' = calls + 1
    /\ UNCHANGED <<toolVars, orch, opc, failAt>>

\* if not hasattr(self, '_analyses_count'):
ThreadHasattr(t) ==
    /\ opc = Idle /\ ThreadAt(t, "hasattr")
    /\ locals' = SetAttr(locals, t,
                    ThreadFrame(locals[t].method,
                                IF "_analyses_count" \in DOMAIN orch THEN "load" ELSE "create",
                                0))
    /\ UNCHANGED <<toolVars, orch, opc, failAt, calls>>

\* self._analyses_count = 0
ThreadCreate(t) ==
    /\ opc = Idle /\ ThreadAt(t, "create")
    /\ orch' = SetAttr(orch, "_analyses_count", 0)
    /\ locals' = SetAttr(locals, t, ThreadFrame(locals[t].method, "load", 0))
    /\ UNCHANGED <<toolVars, opc, failAt, calls>>

\* self._analyses_count += 1, the read
ThreadLoad(t) ==
    /\ opc = Idle /\ ThreadAt(t, "load")
    /\ locals' = SetAttr(locals, t,
                    ThreadFrame(locals[t].method, "store", orch._analyses_count))
    /\ UNCHANGED <<toolVars, orch, opc, failAt, calls>>

\* self._analyses_count += 1, the write
ThreadStore(t) ==
    /\ opc = Idle /\ ThreadAt(t, "store")
    /\ orch' = SetAttr(orch, "_analyses_count", locals[t].loaded + 1)
    /\ locals' = SetAttr(locals, t, ThreadFrame(locals[t].method, "counted", 0))
    /\ UNCHANGED <<toolVars, opc, failAt, calls>>

NextThreads ==
    \/ Construct \/ SetupAgentsWithTools \/ SetupWorkflows \/ SetupBasicAgents
    \/ \E t \in Threads :
          ThreadCall(t) \/ ThreadHasattr(t) \/ ThreadCreate(t) \/ ThreadLoad(t)
          \/ ThreadStore(t)

SpecThreads == InitOrch /\ [][NextThreads]_vars

-----------------------------------------------------------------------------
(* What the claims speak of, stated on the arguments of the call *)

Called(f) == fn = f /\ result # Pending

\* a record with a timestamp that parses as ISO-8601
HasParsableTimestamp(item) ==
    /\ IsDict(item)
    /\ "timestamp" \in DOMAIN item
    /\ item.timestamp.t = "str"
    /\ "iso" \in DOMAIN item.timestamp

\* a record with a consumption_kwh that float() converts
HasNumericConsumption(item) ==
    /\ IsDict(item)
    /\ "consumption_kwh" \in DOMAIN item
    /\ item.consumption_kwh.t = "float"

ValidReading(item) == HasParsableTimestamp(item) /\ HasNumericConsumption(item)

\* the consumption values of the valid readings of hour h, in input order
ValuesAtHour(items, h) ==
    LET at == SelectSeq(items, LAMBDA r : ValidReading(r) /\ r.timestamp.iso.hour = h)
    IN  [k \in 1..Len(at) |-> at[k].consumption_kwh.v]

\* mean(h1) > mean(h2), on the exact means
MeanAbove(items, h1, h2) ==
    SumSeq(ValuesAtHour(items, h1)) * Len(ValuesAtHour(items, h2))
        > SumSeq(ValuesAtHour(items, h2)) * Len(ValuesAtHour(items, h1))

MeanEqual(items, h1, h2) ==
    SumSeq(ValuesAtHour(items, h1)) * Len(ValuesAtHour(items, h2))
        = SumSeq(ValuesAtHour(items, h2)) * Len(ValuesAtHour(items, h1))

\* the hours the input mentions: a parsable timestamp next to a consumption value
HoursSeen(items) ==
    {items[i].timestamp.iso.hour :
        i \in {j \in 1..Len(items) : /\ HasParsableTimestamp(items[j])
                                     /\ "consumption_kwh" \in DOMAIN items[j]}}

\* the position of the first reading that mentions hour h
FirstSeen(items, h) ==
    CHOOSE i \in 1..Len(items) :
        /\ HasParsableTimestamp(items[i]) /\ "consumption_kwh" \in DOMAIN items[i]
        /\ items[i].timestamp.iso.hour = h
        /\ \A j \in 1..(i - 1) :
              ~(/\ HasParsableTimestamp(items[j]) /\ "consumption_kwh" \in DOMAIN items[j]
                /\ items[j].timestamp.iso.hour = h)

PeakSuccess == Called("peak") /\ result.status = "success"

-----------------------------------------------------------------------------
(* C1: detect_peak_hours skips an invalid reading without aborting: for a
   list with at least one reading that has a parsable timestamp and a numeric
   consumption_kwh (and a positive top_n) the call succeeds and returns what
   it returns for the list with the invalid readings removed. *)
C1_InvalidReadingsSkipped ==
    (/\ Called("peak")
     /\ IsList(args.consumption_data)
     /\ args.top_n >= 1
     /\ \E i \in 1..Len(args.consumption_data.items) :
            ValidReading(args.consumption_data.items[i]))
    => /\ result.status = "success"
       /\ result = detect_peak_hours(
                       PyList(SelectSeq(args.consumption_data.items, ValidReading)),
                       args.top_n)

-----------------------------------------------------------------------------
(* C3: each of the four functions answers empty, zero or out-of-range input
   (empty or non-list readings, consumption <= 0, empty tier list, reduction
   percentage outside [0,100], rate <= 0, top_n <= 0) with status error and an
   error message, never with status success. *)
OutOfRangeInput ==
    CASE fn = "stats" ->
            ~Truthy(args.consumption_data) \/ ~IsList(args.consumption_data)
      [] fn = "peak" ->
            \/ ~Truthy(args.consumption_data) \/ ~IsList(args.consumption_data)
            \/ args.top_n <= 0
      [] fn = "cost" ->
            args.consumption_kwh <= 0 \/ ~Truthy(args.rate_tiers)
      [] fn = "savings" ->
            \/ args.current_consumption_kwh <= 0
            \/ args.reduction_percentage < 0 \/ args.reduction_percentage > 100
            \/ args.rate_per_kwh <= 0

C3_OutOfRangeInputIsError ==
    (result # Pending /\ OutOfRangeInput)
    => /\ result.status = "error"
       /\ "error_message" \in DOMAIN result

-----------------------------------------------------------------------------
(* C4: when agent or workflow setup raises during construction, the
   constructor does not propagate the failure: it runs the basic setup and
   completes with the bill parser, meter analyzer, recommendation engine,
   sequential workflow and root coordinator all assigned by the basic setup
   and parallel_analysis_team None. *)
C4_FallbackIsAllBasic ==
    /\ (opc.method = "constructed" /\ failAt # 0) =>
          /\ {"bill_parser_with_tools", "meter_analyzer_with_tools",
               "recommendation_engine_with_tools", "sequential_workflow",
               "root_coordinator", "parallel_analysis_team"} \subseteq DOMAIN orch
          /\ orch.bill_parser_with_tools = BasicAgent("BillParser", "gemini-2.5-flash")
          /\ orch.meter_analyzer_with_tools =
                BasicAgent("MeterAnalyzer", "gemini-2.5-flash")
          /\ orch.recommendation_engine_with_tools =
                BasicAgent("RecommendationEngine", "gemini-2.5-flash")
          /\ orch.sequential_workflow.name = "BasicEnergyAnalysis"
          /\ orch.sequential_workflow.sub_agents =
                <<orch.bill_parser_with_tools, orch.meter_analyzer_with_tools,
                  orch.recommendation_engine_with_tools>>
          /\ orch.root_coordinator =
                BasicAgent("EnergyAnalysisCoordinator", "gemini-2.5-flash")
          /\ orch.parallel_analysis_team = PyNoneObject
    /\ (opc.method # "constructed") => ENABLED NextOrch

\* constructed after the last call of the full setup raised: the sequential
\* workflow and the parallel team of the failed attempt had been assigned
C4_Witness ==
    /\ opc.method = "constructed"
    /\ failAt = AgentsWithToolsCalls + WorkflowsCalls
    /\ orch.parallel_analysis_team = PyNoneObject
    /\ orch.sequential_workflow.name = "BasicEnergyAnalysis"

-----------------------------------------------------------------------------
(* C10 (as claimed): peak_hours is in descending order of mean consumption,
   and of two hours with the same mean the smaller hour-of-day comes first,
   whatever the order of the readings (stated for a positive top_n). *)
RankedBy(Before(_, _)) ==
    /\ \A i, j \in 1..Len(result.peak_hours) :
          i < j => Before(result.peak_hours[i], result.peak_hours[j])
    /\ \A i \in 1..Len(result.peak_hours) :
          \A h \in HoursSeen(args.consumption_data.items) :
             (\A j \in 1..Len(result.peak_hours) : result.peak_hours[j] # h)
             => Before(result.peak_hours[i], h)

C10_TiesBySmallerHour ==
    (PeakSuccess /\ args.top_n >= 1) =>
        RankedBy(LAMBDA h1, h2 :
            LET items == args.consumption_data.items
            IN  \/ MeanAbove(items, h1, h2)
                \/ MeanEqual(items, h1, h2) /\ h1 < h2)

(* C10 (amended): peak_hours is in descending order of mean consumption, and
   of two hours with the same mean the one whose first reading (parsable
   timestamp, consumption_kwh present) comes earlier in the input is first. *)
C10_TiesByFirstSeen ==
    PeakSuccess =>
        RankedBy(LAMBDA h1, h2 :
            LET items == args.consumption_data.items
            IN  \/ MeanAbove(items, h1, h2)
                \/ /\ MeanEqual(items, h1, h2)
                   /\ FirstSeen(items, h1) < FirstSeen(items, h2))

\* a tie between two ranked hours, the larger hour first
C10_Witness ==
    /\ PeakSuccess
    /\ Len(result.peak_hours) >= 2
    /\ \E i \in 1..(Len(result.peak_hours) - 1) :
          /\ MeanEqual(args.consumption_data.items,
                       result.peak_hours[i], result.peak_hours[i + 1])
          /\ result.peak_hours[i] > result.peak_hours[i + 1]

-----------------------------------------------------------------------------
(* Tiered cost: what the claims speak of *)

CostSuccess == Called("cost") /\ result.status = "success"

MultiTier == IsList(args.rate_tiers) /\ Len(args.rate_tiers.items) >= 2

\* the rate of a tier: its rate_per_kwh, else its rate, else the default
TierRate(tier) ==
    IF "rate_per_kwh" \in DOMAIN tier THEN tier.rate_per_kwh
    ELSE IF "rate" \in DOMAIN tier THEN tier.rate
    ELSE DefaultRate

\* the orders in which a list of tiers can be taken
Orders(tiers) ==
    {[i \in 1..Len(tiers) |-> tiers[f[i]]] :
        f \in {g \in [1..Len(tiers) -> 1..Len(tiers)] :
                  \A a, b \in 1..Len(tiers) : g[a] = g[b] => a = b}}

AscendingByRate(p) ==
    \A i, j \in 1..Len(p) : i < j => TierRate(p[i]) <= TierRate(p[j])

\* progressive allocation along p from tier i on: what each tier receives
RECURSIVE Progressive(_, _, _)
Progressive(p, i, remaining) ==
    IF i > Len(p) \/ remaining <= 0 THEN <<>>
    ELSE LET kwh == IF "threshold_kwh" \in DOMAIN p[i]
                    THEN Min2(remaining, p[i].threshold_kwh)
                    ELSE remaining
         IN  <<[kwh |-> kwh, rate |-> TierRate(p[i])]>>
             \o Progressive(p, i + 1, remaining - kwh)

\* the sum over the breakdown of allocated kWh x rate, in mills
BreakdownMills(b) == SumSeq([k \in 1..Len(b) |-> b[k].kwh * b[k].rate])

-----------------------------------------------------------------------------
(* C2: in the multi-tier case the tiers are taken in ascending order of rate,
   each receives min(remaining, threshold) kWh (all that remains without a
   threshold), allocation stops when nothing remains or the tiers are used
   up, and total_cost is the sum of allocated kWh x rate; 850 kWh over
   (0.10, 200), (0.15, 500), (0.25, 1000) gives 200, 500, 150 kWh costing
   20.00, 75.00, 37.50 and 132.50 in total. *)
C2_ProgressiveAllocation ==
    (CostSuccess /\ MultiTier) =>
       /\ \E p \in Orders(args.rate_tiers.items) :
             /\ AscendingByRate(p)
             /\ LET a == Progressive(p, 1, args.consumption_kwh)
                    b == result.tier_breakdown
                IN  /\ Len(b) = Len(a)
                    /\ \A k \in 1..Len(a) :
                          /\ b[k].kwh = a[k].kwh
                          /\ b[k].rate = a[k].rate
                          /\ b[k].cost = RoundHalfEven(a[k].kwh * a[k].rate, 10)
                    /\ result.total_cost = RoundHalfEven(BreakdownMills(a), 10)
       /\ (/\ args.consumption_kwh = 850
           /\ args.rate_tiers.items = <<OffPeakTier, StandardTier, PeakTier>>)
          => /\ [k \in 1..3 |-> result.tier_breakdown[k].kwh] = <<200, 500, 150>>
             /\ [k \in 1..3 |-> result.tier_breakdown[k].cost] = <<2000, 7500, 3750>>
             /\ result.total_cost = 13250

-----------------------------------------------------------------------------
(* C5: every success result of calculate_cost_by_rate_tier, single-tier and
   multi-tier alike, contains average_rate = total cost / consumption rounded
   to 3 decimals, next to total_cost rounded to 2 decimals. *)
C5_AverageRateInEverySuccess ==
    CostSuccess =>
       /\ "average_rate" \in DOMAIN result
       /\ result.average_rate =
             RoundHalfEven(BreakdownMills(result.tier_breakdown), args.consumption_kwh)
       /\ result.total_cost = RoundHalfEven(BreakdownMills(result.tier_breakdown), 10)

-----------------------------------------------------------------------------
(* C6: in the multi-tier case the rates charged in successive tier_breakdown
   entries are non-decreasing, whatever the order of the tiers and whichever
   key or default supplies a tier's rate. *)
C6_CheapestTierFirst ==
    (CostSuccess /\ MultiTier) =>
       \A i, j \in 1..Len(result.tier_breakdown) :
          i < j => result.tier_breakdown[i].rate <= result.tier_breakdown[j].rate

-----------------------------------------------------------------------------
(* C7: with exactly one tier the tier's rate applies to the entire
   consumption, whatever threshold_kwh it carries: one breakdown entry with
   kwh = consumption and total_cost = consumption x rate; 850 kWh at 0.15
   gives 127.50 and one entry of 850 kWh. *)
SingleTierCall ==
    /\ Called("cost")
    /\ args.consumption_kwh > 0
    /\ IsList(args.rate_tiers)
    /\ Len(args.rate_tiers.items) = 1

C7_SingleTierFlatRate ==
    SingleTierCall =>
       LET tier == args.rate_tiers.items[1] IN
       /\ result.status = "success"
       /\ Len(result.tier_breakdown) = 1
       /\ result.tier_breakdown[1].kwh = args.consumption_kwh
       /\ result.tier_breakdown[1].rate = TierRate(tier)
       /\ result.total_cost = RoundHalfEven(args.consumption_kwh * TierRate(tier), 10)
       /\ (args.consumption_kwh = 850 /\ tier = [rate |-> 150])
          => result.total_cost = 12750 /\ result.tier_breakdown[1].kwh = 850

\* one tier whose threshold is below the consumption
C7_Witness ==
    /\ SingleTierCall
    /\ "threshold_kwh" \in DOMAIN args.rate_tiers.items[1]
    /\ args.rate_tiers.items[1].threshold_kwh < args.consumption_kwh
    /\ result.status = "success"
    /\ result.tier_breakdown[1].kwh = args.consumption_kwh

-----------------------------------------------------------------------------
(* Statistics: what the claims speak of *)

\* the consumption values of the records whose consumption_kwh float()
\* converts, whatever their timestamp, in input order
CoercibleValues(items) ==
    LET ok == SelectSeq(items, HasNumericConsumption)
    IN  [k \in 1..Len(ok) |-> ok[k].consumption_kwh.v]

\* a reading whose timestamp is missing or malformed
BadTimestamp(item) == IsDict(item) /\ ~HasParsableTimestamp(item)

WithoutBadTimestamps(items) == SelectSeq(items, LAMBDA r : ~BadTimestamp(r))

\* the same status and, on success, the same value in every field
SameOutcome(a, b) == a.status = b.status /\ (a.status = "success" => a = b)

-----------------------------------------------------------------------------
(* C8: calculate_consumption_statistics returns an error exactly when the
   list is empty or no element is a record with a numerically coercible
   consumption_kwh; otherwise it succeeds with count = the number of such
   elements, the others being dropped silently. *)
C8_ErrorIffNoCoercibleValue ==
    (Called("stats") /\ IsList(args.consumption_data)) =>
       LET n == Len(CoercibleValues(args.consumption_data.items)) IN
       /\ result.status = "error" <=> n = 0
       /\ result.status = "success" => result.count = n

-----------------------------------------------------------------------------
(* C9 (as claimed): a reading whose timestamp is missing or malformed is
   skipped by calculate_consumption_statistics and by detect_peak_hours: each
   returns what it returns for the list without such readings. *)
C9_BadTimestampSkippedByBoth ==
    /\ (Called("stats") /\ IsList(args.consumption_data)) =>
          SameOutcome(result,
              calculate_consumption_statistics(
                  PyList(WithoutBadTimestamps(args.consumption_data.items))))
    /\ (Called("peak") /\ IsList(args.consumption_data)) =>
          SameOutcome(result,
              detect_peak_hours(
                  PyList(WithoutBadTimestamps(args.consumption_data.items)),
                  args.top_n))

(* C9 (amended): a reading whose timestamp is missing or malformed is skipped
   by detect_peak_hours, which returns what it returns for the list without
   such readings; calculate_consumption_statistics does not read the
   timestamp: on success its count, total, min and max are those of all the
   records with a coercible consumption_kwh, such readings included. *)
C9_BadTimestampSkippedByPeakOnly ==
    /\ (Called("peak") /\ IsList(args.consumption_data)) =>
          SameOutcome(result,
              detect_peak_hours(
                  PyList(WithoutBadTimestamps(args.consumption_data.items)),
                  args.top_n))
    /\ (Called("stats") /\ result.status = "success") =>
          LET xs == CoercibleValues(args.consumption_data.items) IN
          /\ result.count = Len(xs)
          /\ result.total = SumSeq(xs)
          /\ result.min = MinSeq(xs)
          /\ result.max = MaxSeq(xs)
          /\ result.mean = RoundHalfEven(SumSeq(xs), Len(xs))

\* statistics over a list in which a reading without a parsable timestamp
\* carries the smallest value: it is counted and it is the minimum
C9_Witness ==
    /\ Called("stats") /\ result.status = "success"
    /\ \E i \in 1..Len(args.consumption_data.items) :
          LET item == args.consumption_data.items[i] IN
          /\ BadTimestamp(item) /\ HasNumericConsumption(item)
          /\ result.count >= 2
          /\ result.min = item.consumption_kwh.v
          /\ result.min < result.max

-----------------------------------------------------------------------------
(* Peak hours: what the claims speak of *)

\* the hours that have at least one valid reading
ValidHours(items) ==
    {items[i].timestamp.iso.hour : i \in {j \in 1..Len(items) : ValidReading(items[j])}}

MinOf(a, b) == IF a <= b THEN a ELSE b

\* the hours listed in peak_hours
PeakHourSet == {result.peak_hours[k] : k \in 1..Len(result.peak_hours)}

-----------------------------------------------------------------------------
(* C11: for every integer top_n, a successful detect_peak_hours returns at
   most top_n hours: peak_hours has exactly min(top_n, number of distinct
   hours of the valid readings) entries, all distinct and in 0..23. *)
C11_AtMostTopN ==
    PeakSuccess =>
        /\ Len(result.peak_hours) =
              MinOf(args.top_n, Cardinality(ValidHours(args.consumption_data.items)))
        /\ Len(result.peak_hours) <= args.top_n
        /\ Cardinality(PeakHourSet) = Len(result.peak_hours)
        /\ PeakHourSet \subseteq 0..23

-----------------------------------------------------------------------------
(* C12: in a successful detect_peak_hours result, peak_hours_consumption has
   an entry for exactly the hours of peak_hours, and the entry of hour h is
   the arithmetic mean, rounded to 2 decimals, of the consumption of all the
   valid readings whose timestamp hour is h, over all the days of the input. *)
C12_EntryIsMeanOfHour ==
    PeakSuccess =>
        /\ DOMAIN result.peak_hours_consumption = {ToString(h) : h \in PeakHourSet}
        /\ \A h \in PeakHourSet :
              LET xs == ValuesAtHour(args.consumption_data.items, h) IN
              /\ xs # <<>>
              /\ result.peak_hours_consumption[ToString(h)]
                    = RoundHalfEven(SumSeq(xs), Len(xs))

\* hour 7 is a peak hour, read on two days, with a mean that is none of its values
C12_Witness ==
    /\ PeakSuccess
    /\ 7 \in PeakHourSet
    /\ \E i, j \in 1..Len(args.consumption_data.items) :
          LET a == args.consumption_data.items[i]
              b == args.consumption_data.items[j]
          IN  /\ ValidReading(a) /\ ValidReading(b)
              /\ a.timestamp.iso = [day |-> 1, hour |-> 7]
              /\ b.timestamp.iso = [day |-> 2, hour |-> 7]
              /\ a.consumption_kwh.v = 300
    /\ result.peak_hours_consumption["7"] = 250

-----------------------------------------------------------------------------
(* Savings: what the claims speak of *)

SavingsSuccess == Called("savings") /\ result.status = "success"

ValidSavingsInput ==
    /\ args.current_consumption_kwh > 0
    /\ args.reduction_percentage >= 0 /\ args.reduction_percentage <= 100
    /\ args.rate_per_kwh > 0

SavingsFields == {"monthly_savings_usd", "annual_savings_usd", "kwh_saved_monthly",
                  "kwh_saved_annually", "current_monthly_cost", "new_monthly_cost"}

\* the monthly savings before rounding, in 1/100000 USD: kWh x percent x mills
UnroundedMonthlySavings ==
    args.current_consumption_kwh * args.reduction_percentage * args.rate_per_kwh

\* the current monthly cost before rounding, in 1/100000 USD
UnroundedCurrentCost == args.current_consumption_kwh * args.rate_per_kwh * 100

-----------------------------------------------------------------------------
(* C13: estimate_savings_potential(850, 15, 0.15) returns success with
   kwh_saved_monthly = 127.5, monthly_savings_usd = 19.13 and
   annual_savings_usd = 229.50. *)
C13_DocumentedExample ==
    (/\ Called("savings")
     /\ args = [current_consumption_kwh |-> 850, reduction_percentage |-> 15,
                rate_per_kwh |-> 150])
    => /\ result.status = "success"
       /\ result.kwh_saved_monthly = 12750
       /\ result.monthly_savings_usd = 1913
       /\ result.annual_savings_usd = 22950

-----------------------------------------------------------------------------
(* C14: for all valid inputs, kwh_saved_monthly = kWh x percent / 100,
   kwh_saved_annually = 12 x the monthly kWh saved, monthly_savings_usd =
   monthly kWh saved x rate and annual_savings_usd = 12 x the monthly
   savings, each computed from the unrounded quantities and then rounded to
   2 decimals, and reduction_percentage is passed through unchanged. *)
C14_SavingsFormulas ==
    (Called("savings") /\ ValidSavingsInput) =>
        /\ result.status = "success"
        /\ result.kwh_saved_monthly =
              args.current_consumption_kwh * args.reduction_percentage
        /\ result.kwh_saved_annually =
              12 * args.current_consumption_kwh * args.reduction_percentage
        /\ result.monthly_savings_usd = RoundHalfEven(UnroundedMonthlySavings, 1000)
        /\ result.annual_savings_usd = RoundHalfEven(12 * UnroundedMonthlySavings, 1000)
        /\ result.reduction_percentage = args.reduction_percentage

\* the annual savings are not 12 times the rounded monthly savings
C14_Witness ==
    /\ SavingsSuccess
    /\ result.annual_savings_usd # 12 * result.monthly_savings_usd
    /\ result.kwh_saved_monthly = 12750

-----------------------------------------------------------------------------
(* C15 (as claimed): in every success result the returned fields satisfy
   new_monthly_cost = current_monthly_cost - monthly_savings_usd, with
   0 <= new_monthly_cost <= current_monthly_cost, the new cost being the
   current cost at 0% and 0 at 100%. *)
C15_NewCostIsDifferenceOfFields ==
    SavingsSuccess =>
        /\ result.new_monthly_cost =
              result.current_monthly_cost - result.monthly_savings_usd
        /\ 0 <= result.new_monthly_cost
        /\ result.new_monthly_cost <= result.current_monthly_cost
        /\ (args.reduction_percentage = 0) =>
              result.new_monthly_cost = result.current_monthly_cost
        /\ (args.reduction_percentage = 100) => result.new_monthly_cost = 0

(* C15 (amended): in every success result new_monthly_cost is the unrounded
   current cost minus the unrounded monthly savings, rounded to 2 decimals;
   it differs from current_monthly_cost - monthly_savings_usd of the returned
   fields by at most one cent, with 0 <= new_monthly_cost <=
   current_monthly_cost, the new cost being the current cost at 0% and 0 at
   100%. *)
C15_NewCostOfUnrounded ==
    SavingsSuccess =>
        LET d == result.new_monthly_cost
                    - (result.current_monthly_cost - result.monthly_savings_usd)
        IN  /\ result.new_monthly_cost =
                  RoundHalfEven(UnroundedCurrentCost - UnroundedMonthlySavings, 1000)
            /\ -1 <= d /\ d <= 1
            /\ 0 <= result.new_monthly_cost
            /\ result.new_monthly_cost <= result.current_monthly_cost
            /\ (args.reduction_percentage = 0) =>
                  result.new_monthly_cost = result.current_monthly_cost
            /\ (args.reduction_percentage = 100) => result.new_monthly_cost = 0

\* a success result whose fields are one cent apart: 106.25 - 10.62 is not 95.62
C15_Witness ==
    /\ SavingsSuccess
    /\ result.current_monthly_cost = 10625
    /\ result.monthly_savings_usd = 1062
    /\ result.new_monthly_cost = 9562

-----------------------------------------------------------------------------
(* C16: estimate_savings_potential returns an error, and no savings figures,
   exactly when the consumption is <= 0, or the percentage is outside
   [0,100], or the rate is <= 0; for every other input, the percentages 0 and
   100 included, it returns success. *)
C16_ErrorIffOutOfRange ==
    Called("savings") =>
        IF ValidSavingsInput
        THEN result.status = "success" /\ SavingsFields \subseteq DOMAIN result
        ELSE /\ result.status = "error"
             /\ "error_message" \in DOMAIN result
             /\ DOMAIN result \cap SavingsFields = {}

\* both outcomes at the edge of the range: 100% succeeds, 101% fails
C16_Witness ==
    /\ Called("savings")
    /\ \/ args.reduction_percentage = 100 /\ result.status = "success"
                                          /\ result.new_monthly_cost = 0
       \/ args.reduction_percentage = 0 /\ result.status = "success"
                                        /\ result.monthly_savings_usd = 0

-----------------------------------------------------------------------------
(* C17: calculate_cost_by_rate_tier returns an error, and no cost figures,
   whenever the consumption is <= 0 or the tier list is empty, and the
   consumption check takes precedence when both hold. *)
C17_CostInputErrors ==
    (/\ Called("cost")
     /\ args.consumption_kwh <= 0 \/ ~Truthy(args.rate_tiers))
    => /\ result.status = "error"
       /\ DOMAIN result \cap {"total_cost", "tier_breakdown", "average_rate"} = {}
       /\ result.error_message =
             IF args.consumption_kwh <= 0
             THEN "consumption_kwh must be greater than 0"
             ELSE "rate_tiers must be a non-empty list"

\* both checks fail and the consumption is the one reported
C17_Witness ==
    /\ Called("cost")
    /\ args.consumption_kwh <= 0
    /\ args.rate_tiers = PyList(<<>>)
    /\ result = ErrorResult("consumption_kwh must be greater than 0")

-----------------------------------------------------------------------------
(* C18: detect_peak_hours returns an error whenever no hour could be
   extracted from the input, that is when no reading has both a parsable
   timestamp and a consumption value; for a non-empty list it is the error
   of the empty grouping. *)
C18_NoHourIsError ==
    (Called("peak") /\ HoursSeen(args.consumption_data.items) = {})
    => /\ result.status = "error"
       /\ (IsList(args.consumption_data) /\ Truthy(args.consumption_data))
             => result.error_message = "Could not extract hourly consumption data"

\* every reading of the list has a numeric consumption and a timestamp
\* string that does not parse
C18_Witness ==
    /\ Called("peak")
    /\ IsList(args.consumption_data)
    /\ Len(args.consumption_data.items) >= 2
    /\ args.top_n >= 1
    /\ \A i \in 1..Len(args.consumption_data.items) :
          LET item == args.consumption_data.items[i] IN
          /\ HasNumericConsumption(item)
          /\ "timestamp" \in DOMAIN item
          /\ item.timestamp = MalformedTimestamp
    /\ result.status = "error"

-----------------------------------------------------------------------------
(* C19: every success result of calculate_consumption_statistics satisfies
   min <= median <= max and min <= mean <= max on the returned fields. *)
C19_MedianAndMeanWithinRange ==
    (Called("stats") /\ result.status = "success")
    => /\ result.min <= result.median /\ result.median <= result.max
       /\ result.min <= result.mean /\ result.mean <= result.max

\* an even count of values that are not all equal: the median is the mean
\* of the two middle values
C19_Witness ==
    /\ Called("stats") /\ result.status = "success"
    /\ result.count = 2
    /\ result.min < result.median /\ result.median < result.max
    /\ result.mean = result.median

-----------------------------------------------------------------------------
(* C20: calculate_consumption_statistics returns std_dev = 0 when exactly
   one valid value remains after filtering and when all the valid values are
   equal; with one value it succeeds, no variance being computed. *)
C20_StdDevZero ==
    (/\ Called("stats")
     /\ IsList(args.consumption_data)
     /\ LET xs == CoercibleValues(args.consumption_data.items) IN
        /\ xs # <<>>
        /\ \A i, j \in 1..Len(xs) : xs[i] = xs[j])
    => /\ result.status = "success"
       /\ result.std_dev = 0

-----------------------------------------------------------------------------
(* C22: none of the four functions mutates its arguments: over a call, on
   success and on error alike, the readings list and its records and the
   rate_tiers list, the order of its tiers included, stay as they were. *)
C22_ArgumentsUnchanged == [][args' = args]_vars

\* a multi-tier call has returned success for tiers that were not given in
\* the order the function sorts them into
C22_Witness ==
    /\ CostSuccess /\ MultiTier
    /\ SortTiers(args.rate_tiers.items) # args.rate_tiers.items

-----------------------------------------------------------------------------
(* Tiered cost: kWh allocated *)

PositiveThresholds(tiers) ==
    \A i \in 1..Len(tiers) :
        "threshold_kwh" \in DOMAIN tiers[i] => tiers[i].threshold_kwh > 0

AllBounded(tiers) == \A i \in 1..Len(tiers) : "threshold_kwh" \in DOMAIN tiers[i]

ThresholdSum(tiers) == SumSeq([i \in 1..Len(tiers) |-> tiers[i].threshold_kwh])

AllocatedKwh(b) == SumSeq([k \in 1..Len(b) |-> b[k].kwh])

-----------------------------------------------------------------------------
(* C25: in the multi-tier case with positive thresholds the kWh of
   tier_breakdown add up to min(consumption, sum of the thresholds), a tier
   without threshold counting as unbounded; when the thresholds add up to
   less than the consumption the excess is billed to no tier, the call still
   returns success, and average_rate is taken over the whole consumption. *)
C25_AllocatedIsMinOfConsumptionAndThresholds ==
    (/\ Called("cost") /\ MultiTier /\ args.consumption_kwh > 0
     /\ PositiveThresholds(args.rate_tiers.items))
    => LET tiers == args.rate_tiers.items
           b == result.tier_breakdown
       IN  /\ result.status = "success"
           /\ AllocatedKwh(b) =
                 IF AllBounded(tiers)
                 THEN MinOf(args.consumption_kwh, ThresholdSum(tiers))
                 ELSE args.consumption_kwh
           /\ result.average_rate =
                 RoundHalfEven(BreakdownMills(b), args.consumption_kwh)

\* 850 kWh over thresholds of 200 and 500: 150 kWh are billed to no tier
C25_Witness ==
    /\ CostSuccess /\ MultiTier
    /\ args.consumption_kwh = 850
    /\ PositiveThresholds(args.rate_tiers.items)
    /\ AllBounded(args.rate_tiers.items)
    /\ ThresholdSum(args.rate_tiers.items) = 700
    /\ AllocatedKwh(result.tier_breakdown) = 700

-----------------------------------------------------------------------------
(* C26: in every success result of calculate_cost_by_rate_tier, whatever
   tiers the function accepted, total_cost >= 0, every tier_breakdown entry
   has kwh > 0 and cost >= 0, and what remains to allocate never becomes
   negative nor grows: the allocations are positive and add up to no more
   than the consumption. *)
C26_CostFiguresNonNegative ==
    CostSuccess =>
        LET b == result.tier_breakdown IN
        /\ result.total_cost >= 0
        /\ \A k \in 1..Len(b) : b[k].kwh > 0 /\ b[k].cost >= 0
        /\ \A k \in 0..Len(b) :
              AllocatedKwh(SubSeq(b, 1, k)) <= args.consumption_kwh

-----------------------------------------------------------------------------
(* Orchestrator: what the claims speak of *)

Constructed == opc.method = "constructed"

\* the part an agent plays, by the name it was created with
AgentRole(agent) ==
    CASE agent.name \in {"BillParserWithTools", "BillParser"} -> "bill parser"
      [] agent.name \in {"MeterAnalyzerWithTools", "MeterAnalyzerParallel", "MeterAnalyzer"}
            -> "meter analyzer"
      [] agent.name \in {"AnomalyDetectorParallel", "AnomalyDetectorSequential"}
            -> "anomaly detector"
      [] agent.name \in {"RecommendationEngineWithTools", "RecommendationEngine"}
            -> "recommendation engine"
      [] OTHER -> "other"

Roles(sub_agents) == [k \in 1..Len(sub_agents) |-> AgentRole(sub_agents[k])]

AgentSet(sub_agents) == {sub_agents[k] : k \in 1..Len(sub_agents)}

-----------------------------------------------------------------------------
(* C23 (as claimed): on every construction path the sequential workflow
   chains four agents in the order bill parser, meter analyzer, anomaly
   detector, recommendation engine, and the parallel team consists of two
   independent agents, a meter analyzer and an anomaly detector. *)
C23_FourAndTwoOnEveryPath ==
    Constructed =>
        /\ Roles(orch.sequential_workflow.sub_agents) =
              <<"bill parser", "meter analyzer", "anomaly detector",
                "recommendation engine">>
        /\ orch.parallel_analysis_team.pytype = "ParallelAgent"
        /\ Roles(orch.parallel_analysis_team.sub_agents) =
              <<"meter analyzer", "anomaly detector">>

(* C23 (amended): when the full setup succeeds the sequential workflow chains
   four agents in the order bill parser, meter analyzer, anomaly detector,
   recommendation engine and the parallel team consists of two agents of its
   own, a meter analyzer and an anomaly detector; on the fallback path the
   sequential workflow chains three agents, bill parser, meter analyzer,
   recommendation engine, and there is no parallel team. *)
C23_WorkflowsByPath ==
    /\ (Constructed /\ failAt = 0) =>
          /\ Roles(orch.sequential_workflow.sub_agents) =
                <<"bill parser", "meter analyzer", "anomaly detector",
                  "recommendation engine">>
          /\ orch.parallel_analysis_team.pytype = "ParallelAgent"
          /\ Roles(orch.parallel_analysis_team.sub_agents) =
                <<"meter analyzer", "anomaly detector">>
          /\ AgentSet(orch.parallel_analysis_team.sub_agents)
                \cap AgentSet(orch.sequential_workflow.sub_agents) = {}
    /\ (Constructed /\ failAt # 0) =>
          /\ Roles(orch.sequential_workflow.sub_agents) =
                <<"bill parser", "meter analyzer", "recommendation engine">>
          /\ orch.parallel_analysis_team = PyNoneObject

\* constructed by the fallback after the full setup had already built its
\* four-agent workflow
C23_Witness ==
    /\ Constructed
    /\ failAt > AgentsWithToolsCalls + 4
    /\ Len(orch.sequential_workflow.sub_agents) = 3
    /\ orch.parallel_analysis_team = PyNoneObject

-----------------------------------------------------------------------------
(* C29: _extract_result never raises and always returns a record: the error
   record "No response from agent" exactly when there is no final event
   carrying non-empty content parts (None, an empty list, a last event
   without content); otherwise, from the last event only, the JSON object
   parsed from the span between the first "{" and the last "}" of its text,
   or the text wrapper with status success when that span is absent or is
   not valid JSON. *)

\* the final event of an agent's result, if there is one
FinalEvents(r) ==
    IF r.pytype = "list" THEN {r.items[k] : k \in {Len(r.items)} \ {0}}
    ELSE IF r.pytype = "Event" THEN {r}
    ELSE {}

CarriesParts(e) ==
    /\ "content" \in DOMAIN e
    /\ "parts" \in DOMAIN e.content
    /\ e.content.parts.pytype = "list"
    /\ e.content.parts.items # <<>>

\* the span from the first "{" to the last "}" of a text; empty if absent
BraceSpan(text) ==
    IF text.t # "str" THEN <<>>
    ELSE LET c == text.chars
             opens == {k \in 1..Len(c) : c[k] = "{"}
             closes == {k \in 1..Len(c) : c[k] = "}"}
         IN  IF opens = {} \/ closes = {} THEN <<>>
             ELSE LET first == CHOOSE k \in opens : \A j \in opens : k <= j
                      last == CHOOSE k \in closes : \A j \in closes : k >= j
                  IN  [k \in 1..(IF last >= first THEN last - first + 1 ELSE 0)
                          |-> c[first + k - 1]]

ValidJsonObjects == {<<"{", "}">>, <<"{", "\"k\": 1", "}">>}

C29_ExtractResultTotal ==
    Called("_extract_result") =>
        LET final == {e \in FinalEvents(args.result) : CarriesParts(e)} IN
        /\ "exc" \notin DOMAIN result
        /\ (result = NoResponse) <=> (final = {})
        /\ \A e \in final :
              LET text == e.content.parts.items[1].text
                  span == BraceSpan(text)
              IN  IF span \in ValidJsonObjects
                  THEN result = JsonLoads(span).v
                  ELSE /\ DOMAIN result = {"response", "status", "full_text"}
                       /\ result.status = "success"
                       /\ result.response = text /\ result.full_text = text

\* a run of two events: the first carries plain text, the last a JSON object
\* inside prose, and the object of the last one is what comes back
C29_Witness ==
    /\ Called("_extract_result")
    /\ args.result = PyList(<<TextEvent(Str(<<"x">>)),
                              TextEvent(Str(<<"x", "{", "}">>))>>)
    /\ result = JsonObject({})

-----------------------------------------------------------------------------
(* C24: after construction on either path, full setup or fallback, each of
   analyze_complete, analyze_sequential, analyze_with_parallel and chat hands
   a non-null agent to its runner. *)
C24_RunnerAgentNonNull ==
    (/\ fn \in {"analyze_complete", "analyze_sequential", "analyze_with_parallel", "chat"}
     /\ "runner" \in DOMAIN locals)
    => locals.runner.agent # PyNoneObject

-----------------------------------------------------------------------------
(* C27: analyses_performed, as get_session_summary reports it, equals the
   number of analyze_bill and analyze_meter_data calls started on the
   orchestrator: each call counts once, before any other work, so a call that
   then fails with FileNotFoundError is counted too, and get_session_summary,
   analyze_complete, analyze_with_parallel, analyze_sequential and chat leave
   the counter as it is. *)
C27_CountEqualsCallsStarted ==
    Constructed =>
        /\ Get(orch, "_analyses_count", 0) = calls
        /\ fn = "get_session_summary" =>
              /\ "analyses_performed" \in DOMAIN result
              /\ result.analyses_performed = calls

\* the second counted call is an analyze_bill that raised FileNotFoundError
C27_Witness ==
    /\ Constructed
    /\ fn = "analyze_bill"
    /\ result = Raised("FileNotFoundError")
    /\ calls = 2
    /\ Get(orch, "_analyses_count", 0) = 2

-----------------------------------------------------------------------------
(* C30: every request built by analyze_complete, analyze_with_parallel and
   analyze_sequential holds at most the first 50 meter readings, in input
   order, one line per reading; no reading beyond the 50th is in the request,
   and the caller's meter_data list is as it was. *)

IsReadingLine(line) == line[1] = "reading"

C30_AtMostFirstFiftyReadings ==
    (/\ fn \in {"analyze_complete", "analyze_with_parallel", "analyze_sequential"}
     /\ "request" \in DOMAIN locals)
    => LET given == IF args.meter_data.pytype = "list" THEN args.meter_data.items
                    ELSE <<>>
           sent == SelectSeq(locals.request, IsReadingLine)
           LineOf(r) == <<"reading", r.timestamp, r.consumption_kwh>>
       IN  /\ Len(sent) = MinOf(Len(given), ReadingLimit)
           /\ \A k \in 1..Len(sent) : k <= Len(given) /\ sent[k] = LineOf(given[k])
           /\ \A k \in (ReadingLimit + 1)..Len(given) :
                 \A j \in 1..Len(sent) : sent[j] # LineOf(given[k])
           /\ locals.meter_data = args.meter_data

\* a list of 51 readings went into a request of 50 reading lines
C30_Witness ==
    /\ fn = "analyze_sequential"
    /\ "request" \in DOMAIN locals
    /\ Len(args.meter_data.items) = ReadingLimit + 1
    /\ Len(SelectSeq(locals.request, IsReadingLine)) = ReadingLimit

-----------------------------------------------------------------------------
(* C28: when analyze_bill and analyze_meter_data are called concurrently from
   several threads on one orchestrator no increment of the counter is lost:
   once N calls have performed their increment the counter is N, in every
   interleaving of the threads' unsynchronised reads and writes. *)
C28_NoLostIncrement ==
    Constructed =>
        Get(orch, "_analyses_count", 0) =
            Cardinality({t \in DOMAIN locals : locals[t].pc = "counted"})
=============================================================================
